---- MODULE Spec2Model ----
(***************************************************************************)
(* A model of the atom_box crate: AtomBox (src/src/lib.rs), the hazard    *)
(* pointer Domain (src/src/domain/mod.rs), its lock-free lists            *)
(* (src/src/domain/list.rs, src/src/domain/hazard_pointer_list.rs) and    *)
(* the reclaim strategy (src/src/domain/reclaim_strategy.rs).             *)
(*                                                                         *)
(* Every atomic memory operation of the code is one step of one thread;   *)
(* steps of different threads interleave freely (sequential consistency). *)
(* Pointers are numbers, 0 is the null pointer.  A Box allocation takes   *)
(* the next unused address: the code never deallocates a value's memory   *)
(* (reclaim runs drop_in_place on it, mod.rs:271), so no value address is *)
(* ever handed out twice.  The general harness stores in each new Box the *)
(* number of its address, so that the values tell the allocations apart.  *)
(***************************************************************************)
EXTENDS Naturals, Integers, Sequences, FiniteSets, TLC

\* ---------------------------------------------------------------- bounds
NThreads == 2          \* threads of the general harness
NCasThreads == 2       \* threads of the compare_exchange test
MaxAllocs == 2         \* Box<T> allocations after the cells were created
MaxSlots == 2          \* hazard list nodes of a Domain, general harness
MaxSpurious == 1       \* spurious failures of compare_exchange_weak in the test
TwoDomainAllocs == 1   \* Box<T> allocations of the two Domain harness
MaxNodes == 2          \* nodes of the Bicephaly
MaxHeld == 2           \* hazard pointers a thread holds at a time (Bicephaly)
MaxCountDrift == 1     \* how far available_count may leave 0..MaxNodes (Bicephaly)
SpliceAllocs == 3      \* Box<T> allocations of the survivor re-push scenario
MaxTime == 3           \* the clock stops here
SyncTimeout == 1       \* sync_timeout of the TimedCapped Domain
RetiredThreshold == 1  \* retired_threshold of the TimedCapped Domain

\* reclaim_strategy.rs:9
DEFAULT_HAZARD_POINTER_MULTIPLIER == 2

\* tests/concurrency_tests.rs:8
ITERATIONS == 2

NULL == 0
SHARED_DOMAIN_ID == 0  \* lib.rs:59
Max(a, b) == IF a > b THEN a ELSE b
AllThreads == 1..Max(NThreads, NCasThreads)
Threads == 1..NThreads
CasThreads == 1..NCasThreads
Boxes == {1, 2}
Domains == {1, 2}
\* the allocations the compare_exchange test can make: a thread's
\* compare_exchange fails only after another thread's has succeeded
CasAllocs == (NCasThreads * (NCasThreads + 1)) \div 2 + MaxSpurious
\* the addresses a run can hand out, and the values a T can take
AddrSpace == 2 + Max(MaxAllocs, CasAllocs)
Addr == 1..AddrSpace
Values == 0..Max(MaxAllocs, NCasThreads)

VARIABLES
    \* AtomBox (lib.rs:121-124)
    ptr,        \* ptr[b]: AtomBox.ptr, the installed pointer
    boxdom,     \* boxdom[b]: AtomBox.domain
    boxalive,   \* boxalive[b]: the AtomBox has not been dropped
    \* the heap of Box<T> values
    val,        \* val[a]: the T stored at address a
    drops,      \* drops[a]: how often the destructor of the value at a has run
    nalloc,     \* number of addresses handed out so far
    \* Domain.hazard_ptrs (list.rs:9-19, hazard_pointer_list.rs:5-9)
    slots,      \* slots[d][i]: hazard list node i of Domain d: [ptr, active, next]
    hhead,      \* hhead[d]: hazard_ptrs.head
    hcount,     \* hcount[d]: hazard_ptrs.count
    \* Domain.retired (list.rs:9-19, mod.rs:88-91); a node is named by the
    \* address of the value it retires
    rnext,      \* rnext[a]: Node.next of the retire node of a
    rhead,      \* rhead[d]: retired.head
    rcount,     \* rcount[d]: retired.count
    strategy,   \* strategy[d]: Domain.reclaim_strategy
    now,        \* SystemTime::now() since UNIX_EPOCH, in periods of the clock
    bicephaly,  \* the hazard list of the "bicephany" feature: a Bicephaly
                \* and the locals of the threads that work on it
    alive,      \* alive[d]: "none" (not constructed yet), "live", "dropping"
                \* (in Drop for Domain), "dropped"
    \* threads
    pc,         \* pc[t]: the step thread t takes next
    ret,        \* ret[t]: stack of continuations of the calls in progress
    box,        \* box[t]: self of the AtomBox method in progress
    lg,         \* lg[t]: the LoadGuard the thread's program holds (NoGuard: none)
    sg,         \* sg[t]: the StoreGuard the thread's program holds
    cur,        \* cur[t]: the LoadGuard being consumed or dropped
    lo,         \* lo[t]: locals of load: [hp, orig]
    it,         \* it[t]: ListIterator.node
    hd,         \* hd[t]: head_ptr of push_all
    rc,         \* rc[t]: locals of retire and bulk_reclaim
    cx,         \* cx[t]: outcome of the thread's last compare_exchange
    seen,       \* seen[t]: the value the thread's last dereference read
    uaf,        \* uaf[t]: some dereference of thread t read a dropped value
    iter,       \* iter[t]: counter of the thread's program
    bound       \* bound.addr, bound.slots: the allocations and hazard list
                \* nodes the run is cut off at; bound.weak: the
                \* compare_exchange test calls compare_exchange_weak
                \* bound.nightly (where Domains are constructed in the
                \* run): the crate is built with cfg(nightly)

cellVars == <<ptr, boxdom, boxalive>>
heapVars == <<val, drops, nalloc>>
hazVars == <<slots, hhead, hcount>>
retVars == <<rnext, rhead, rcount>>
domVars == <<strategy, alive, now, bicephaly>>
progVars == <<seen, uaf, iter, bound>>
vars == <<ptr, boxdom, boxalive, val, drops, nalloc, slots, hhead, hcount,
          rnext, rhead, rcount, strategy, alive, now, bicephaly,
          pc, ret, box, lg, sg, cur,
          lo, it, hd, rc, cx, seen, uaf, iter, bound>>

\* ------------------------------------------------------------ values used
NoGuard == [ptr |-> NULL, haz |-> 0, dom |-> 0]
\* lo.fence: the fence of load has been issued since the last protect
NoLoad == [hp |-> 0, orig |-> NULL, fence |-> FALSE]
\* rc.fence: the fence of retire and bulk_reclaim issued last in the call
NoReclaim == [value |-> NULL, dom |-> 0, chain |-> NULL, guarded |-> {},
              still |-> NULL, tail |-> NULL, remaining |-> 0, reclaimed |-> 0,
              hazard_pointer_count |-> 0, retired_count |-> 0,
              time |-> 0, last_sync_time |-> 0, fence |-> "none"]
NoCx == [res |-> "none", box |-> 0, new |-> NULL, current |-> NULL,
         observed |-> NULL, weak |-> FALSE, from_guard |-> FALSE]

\* TimedCappedSettings { last_sync_time, sync_timeout, retired_threshold,
\* hazard_pointer_multiplier } as new_with_timeout makes it
\* (reclaim_strategy.rs:70-78, 103-117)
TimedCappedSettings(sync_timeout, retired_threshold, hazard_pointer_multiplier) ==
    [last_sync_time |-> 0, sync_timeout |-> sync_timeout,
     retired_threshold |-> retired_threshold,
     hazard_pointer_multiplier |-> hazard_pointer_multiplier]

\* enum ReclaimStrategy (reclaim_strategy.rs:17-29)
Eager == [kind |-> "Eager", settings |-> TimedCappedSettings(0, 0, 0)]
Manual == [kind |-> "Manual", settings |-> TimedCappedSettings(0, 0, 0)]
TimedCapped(settings) == [kind |-> "TimedCapped", settings |-> settings]

\* Bicephaly::new (bicephaly.rs:76-88) and Node::new per node
\* (bicephaly.rs:24-37); nodes: the nodes made so far; local[t]: node, head_ptr, new_head_ptr of the call
\* in progress; held[t]: the nodes whose HazardPointer thread t holds
Bicephaly_new ==
    [available_head |-> NULL, in_use_head |-> NULL,
     available_count |-> 0, in_use_count |-> 0,
     nodes |-> 0,
     next_available |-> [n \in 1..MaxNodes |-> NULL],
     next_in_use |-> [n \in 1..MaxNodes |-> NULL],
     local |-> [t \in AllThreads |->
                  [node |-> NULL, head_ptr |-> NULL, new_head_ptr |-> NULL]],
     held |-> [t \in AllThreads |-> {}]]

\* LoadGuard { ptr, domain, haz_ptr } (lib.rs:729-736)
LoadGuard(p, d, h) == [ptr |-> p, haz |-> h, dom |-> d]
\* StoreGuard { ptr, domain } (lib.rs:690-693)
StoreGuard(p, d) == [ptr |-> p, haz |-> 0, dom |-> d]

\* Node { ptr, active } in a list Node { value, next }
\* (hazard_pointer_list.rs:5-9, list.rs:15-19)
HazNode(p, a, n) == [ptr |-> p, active |-> a, next |-> n]

\* call and return
Call(t, target, cont) ==
    /\ pc' = [pc EXCEPT ![t] = target]
    /\ ret' = [ret EXCEPT ![t] = <<cont>> \o @]
Return(t) ==
    /\ pc' = [pc EXCEPT ![t] = Head(ret[t])]
    /\ ret' = [ret EXCEPT ![t] = Tail(@)]
Goto(t, target) ==
    /\ pc' = [pc EXCEPT ![t] = target]
    /\ UNCHANGED ret

\* Box::into_raw(Box::new(value)) (lib.rs:206, 309, 412, 567)
CanAlloc == nalloc < bound.addr
NewAddr == nalloc + 1
Alloc(v) ==
    /\ nalloc' = nalloc + 1
    /\ val' = [val EXCEPT ![nalloc + 1] = v]

\* ------------------------------------------------------------------ Init
InitLocals ==
    /\ val = [a \in Addr |-> 0]
    /\ drops = [a \in Addr |-> 0]
    /\ slots = [d \in Domains |-> <<>>]
    /\ hhead = [d \in Domains |-> NULL]
    /\ hcount = [d \in Domains |-> 0]
    /\ rnext = [a \in Addr |-> NULL]
    /\ rhead = [d \in Domains |-> NULL]
    /\ rcount = [d \in Domains |-> 0]
    /\ now = 1
    /\ bicephaly = Bicephaly_new
    /\ ret = [t \in AllThreads |-> <<>>]
    /\ box = [t \in AllThreads |-> 0]
    /\ lg = [t \in AllThreads |-> NoGuard]
    /\ sg = [t \in AllThreads |-> NoGuard]
    /\ cur = [t \in AllThreads |-> NoGuard]
    /\ lo = [t \in AllThreads |-> NoLoad]
    /\ it = [t \in AllThreads |-> NULL]
    /\ hd = [t \in AllThreads |-> NULL]
    /\ rc = [t \in AllThreads |-> NoReclaim]
    /\ cx = [t \in AllThreads |-> NoCx]
    /\ seen = [t \in AllThreads |-> 0]
    /\ uaf = [t \in AllThreads |-> FALSE]
    /\ iter = [t \in AllThreads |-> 0]

\* every Domain of the run has been constructed
InitFields ==
    /\ InitLocals
    /\ alive = [d \in Domains |-> "live"]

\* Domain::new(ReclaimStrategy::Eager) (mod.rs:137-144, lib.rs:766)
InitCommon ==
    /\ InitFields
    /\ strategy = [d \in Domains |-> Eager]

\* AtomBox::new_with_domain(0, &domain) (lib.rs:205-208) has made cell 1:
\* the value 0 is boxed at address 1
InitCell ==
    /\ ptr = [b \in Boxes |-> IF b = 1 THEN 1 ELSE NULL]
    /\ nalloc = 1
    /\ boxdom = [b \in Boxes |-> 1]
    /\ boxalive = [b \in Boxes |-> b = 1]

InitOneBox ==
    /\ InitCommon
    /\ InitCell

\* One AtomBox on an Eager Domain; the threads of the general harness are
\* idle.
Init ==
    /\ InitOneBox
    /\ bound = [addr |-> 1 + MaxAllocs, slots |-> MaxSlots, weak |-> FALSE]
    /\ pc = [t \in AllThreads |-> IF t \in Threads THEN "idle" ELSE "off"]


\* ------------------------------------------------- hazard pointer slots
Dom(t) == boxdom[box[t]]

SetSlot(d, i, f, v) == [slots EXCEPT ![d][i][f] = v]

\* the first conjunct of the closure of get_available
\* (hazard_pointer_list.rs:40): !node.ptr.load(Acquire).is_null()
get_available_filter(node) == node.ptr # NULL

\* a try_acquire that takes a slot whatever its active flag is
try_acquire_always(node) == TRUE

\* Node::try_acquire (hazard_pointer_list.rs:18-25): wins iff the node is
\* not active at its compare_exchange
try_acquire(node) == ~node.active

\* Domain::acquire_haz_ptr -> get_available -> iter (mod.rs:157-158,
\* hazard_pointer_list.rs:38-39, list.rs:104-109): head.load(Acquire)
acquire_haz_ptr(t) ==
    /\ pc[t] = "acquire"
    /\ it' = [it EXCEPT ![t] = hhead[Dom(t)]]
    /\ Goto(t, "ga_find")
    /\ UNCHANGED <<cellVars, heapVars, hazVars, retVars, domVars, progVars,
                   box, lg, sg, cur, lo, hd, rc, cx>>

\* ListIterator::next and the load of node.ptr in find's closure
\* (list.rs:30-42, hazard_pointer_list.rs:40); None leads to
\* acquire_new_haz_ptr (mod.rs:160-161)
get_available_find(t) ==
    /\ pc[t] = "ga_find"
    /\ IF it[t] = NULL
       THEN /\ Goto(t, "new_haz")
            /\ UNCHANGED <<it, lo>>
       ELSE LET node == slots[Dom(t)][it[t]] IN
            /\ it' = [it EXCEPT ![t] = node.next]
            /\ IF get_available_filter(node)
               THEN /\ lo' = [lo EXCEPT ![t].hp = it[t]]
                    /\ Goto(t, "ga_try")
               ELSE /\ Goto(t, "ga_find")
                    /\ UNCHANGED lo
    /\ UNCHANGED <<cellVars, heapVars, hazVars, retVars, domVars, progVars,
                   box, lg, sg, cur, hd, rc, cx>>

\* node.try_acquire() in find's closure (hazard_pointer_list.rs:40, 18-25)
get_available_try(t) ==
    /\ pc[t] = "ga_try"
    /\ LET d == Dom(t)
           i == lo[t].hp IN
       IF try_acquire(slots[d][i])
       THEN /\ slots' = SetSlot(d, i, "active", TRUE)
            /\ it' = [it EXCEPT ![t] = NULL]
            /\ Goto(t, "ld_read")
            /\ UNCHANGED lo
       ELSE /\ lo' = [lo EXCEPT ![t].hp = 0]
            /\ Goto(t, "ga_find")
            /\ UNCHANGED <<slots, it>>
    /\ UNCHANGED <<cellVars, heapVars, hhead, hcount, retVars, domVars,
                   progVars, box, lg, sg, cur, hd, rc, cx>>

\* acquire_new_haz_ptr -> push_in_use -> push (mod.rs:170-175,
\* hazard_pointer_list.rs:48-56, list.rs:56-68): a node with a null ptr and
\* active = true is allocated; push_all loads the head (list.rs:81)
acquire_new_haz_ptr(t) ==
    /\ pc[t] = "new_haz"
    /\ LET d == Dom(t) IN
       /\ Len(slots[d]) < bound.slots
       /\ slots' = [slots EXCEPT ![d] = Append(@, HazNode(NULL, TRUE, NULL))]
       /\ lo' = [lo EXCEPT ![t].hp = Len(slots[d]) + 1]
       /\ hd' = [hd EXCEPT ![t] = hhead[d]]
    /\ Goto(t, "new_cas")
    /\ UNCHANGED <<cellVars, heapVars, hhead, hcount, retVars, domVars,
                   progVars, box, lg, sg, cur, it, rc, cx>>

\* a push that stores the new head without comparing it with the head it
\* read
push_in_use_store(t) ==
    /\ pc[t] = "new_cas"
    /\ slots' = SetSlot(Dom(t), lo[t].hp, "next", hd[t])
    /\ hhead' = [hhead EXCEPT ![Dom(t)] = lo[t].hp]
    /\ hd' = [hd EXCEPT ![t] = NULL]
    /\ Goto(t, "new_count")
    /\ UNCHANGED <<cellVars, heapVars, hcount, retVars, domVars, progVars,
                   box, lg, sg, cur, lo, it, rc, cx>>

\* a push that makes the new slot the head without linking the old head
\* behind it
push_in_use_unlinked(t) ==
    /\ pc[t] = "new_cas"
    /\ LET d == Dom(t)
           i == lo[t].hp IN
       IF hhead[d] = hd[t]
       THEN /\ slots' = SetSlot(d, i, "next", NULL)
            /\ hhead' = [hhead EXCEPT ![d] = i]
            /\ hd' = [hd EXCEPT ![t] = NULL]
            /\ Goto(t, "new_count")
       ELSE /\ slots' = SetSlot(d, i, "next", hd[t])
            /\ hd' = [hd EXCEPT ![t] = hhead[d]]
            /\ Goto(t, "new_cas")
            /\ UNCHANGED hhead
    /\ UNCHANGED <<cellVars, heapVars, hcount, retVars, domVars, progVars,
                   box, lg, sg, cur, lo, it, rc, cx>>

\* the loop body of push_all on the hazard list (list.rs:82-99):
\* tail_ptr.store(head_ptr); head.compare_exchange_weak(head_ptr, new_head_ptr)
push_in_use_cas(t) ==
    /\ pc[t] = "new_cas"
    /\ LET d == Dom(t)
           i == lo[t].hp IN
       IF hhead[d] = hd[t]
       THEN /\ slots' = SetSlot(d, i, "next", hd[t])
            /\ hhead' = [hhead EXCEPT ![d] = i]
            /\ hd' = [hd EXCEPT ![t] = NULL]
            /\ Goto(t, "new_count")
       ELSE /\ slots' = SetSlot(d, i, "next", hd[t])
            /\ hd' = [hd EXCEPT ![t] = hhead[d]]
            /\ Goto(t, "new_cas")
            /\ UNCHANGED hhead
    /\ UNCHANGED <<cellVars, heapVars, hcount, retVars, domVars, progVars,
                   box, lg, sg, cur, lo, it, rc, cx>>

\* count.fetch_add(number_of_added_items) of push_all (list.rs:91-92)
push_in_use_count(t) ==
    /\ pc[t] = "new_count"
    /\ hcount' = [hcount EXCEPT ![Dom(t)] = @ + 1]
    /\ Goto(t, "ld_read")
    /\ UNCHANGED <<cellVars, heapVars, slots, hhead, retVars, domVars,
                   progVars, box, lg, sg, cur, lo, it, hd, rc, cx>>

\* ----------------------------------------------------- AtomBox::load
\* let mut original_ptr = self.ptr.load(Relaxed) (lib.rs:227)
load_read(t) ==
    /\ pc[t] = "ld_read"
    /\ lo' = [lo EXCEPT ![t].orig = ptr[box[t]]]
    /\ Goto(t, "ld_protect")
    /\ UNCHANGED <<cellVars, heapVars, hazVars, retVars, domVars, progVars,
                   box, lg, sg, cur, it, hd, rc, cx>>

\* a load that validates right after the protect, without the fence
load_protect_unfenced(t) ==
    /\ pc[t] = "ld_protect"
    /\ slots' = SetSlot(Dom(t), lo[t].hp, "ptr", lo[t].orig)
    /\ Goto(t, "ld_check")
    /\ UNCHANGED <<cellVars, heapVars, hhead, hcount, retVars, domVars,
                   progVars, box, lg, sg, cur, lo, it, hd, rc, cx>>

\* haz_ptr.protect(original_ptr); fence(SeqCst) (lib.rs:231-233)
load_protect(t) ==
    /\ pc[t] = "ld_protect"
    /\ slots' = SetSlot(Dom(t), lo[t].hp, "ptr", lo[t].orig)
    /\ lo' = [lo EXCEPT ![t].fence = TRUE]
    /\ Goto(t, "ld_check")
    /\ UNCHANGED <<cellVars, heapVars, hhead, hcount, retVars, domVars,
                   progVars, box, lg, sg, cur, it, hd, rc, cx>>

\* a load that does not look at the cell again
load_unvalidated(current_ptr, original_ptr) == TRUE

\* a load that takes every validating read for a changed pointer
load_never_validated(current_ptr, original_ptr) == FALSE

\* if current_ptr == original_ptr (lib.rs:237)
load_validated(current_ptr, original_ptr) == current_ptr = original_ptr

\* a load that returns the pointer it protected without reading the cell
\* again
load_check_skip(t) ==
    /\ pc[t] = "ld_check"
    /\ lg' = [lg EXCEPT ![t] = LoadGuard(lo[t].orig, Dom(t), lo[t].hp)]
    /\ lo' = [lo EXCEPT ![t] = NoLoad]
    /\ box' = [box EXCEPT ![t] = 0]
    /\ Return(t)
    /\ UNCHANGED <<cellVars, heapVars, hazVars, retVars, domVars, progVars,
                   sg, cur, it, hd, rc, cx>>

\* let current_ptr = self.ptr.load(Acquire); on equality the loop breaks
\* and the LoadGuard is returned (lib.rs:236-248)
load_check(t) ==
    /\ pc[t] = "ld_check"
    /\ LET current_ptr == ptr[box[t]] IN
       IF load_validated(current_ptr, lo[t].orig)
       THEN /\ lg' = [lg EXCEPT ![t] = LoadGuard(current_ptr, Dom(t), lo[t].hp)]
            /\ lo' = [lo EXCEPT ![t] = NoLoad]
            /\ box' = [box EXCEPT ![t] = 0]
            /\ Return(t)
       ELSE /\ lo' = [lo EXCEPT ![t].orig = current_ptr]
            /\ Goto(t, "ld_reset")
            /\ UNCHANGED <<lg, box>>
    /\ UNCHANGED <<cellVars, heapVars, hazVars, retVars, domVars, progVars,
                   sg, cur, it, hd, rc, cx>>

\* haz_ptr.reset(); original_ptr = current_ptr (lib.rs:241-242)
load_reset(t) ==
    /\ pc[t] = "ld_reset"
    /\ slots' = SetSlot(Dom(t), lo[t].hp, "ptr", NULL)
    /\ lo' = [lo EXCEPT ![t].fence = FALSE]
    /\ Goto(t, "ld_protect")
    /\ UNCHANGED <<cellVars, heapVars, hhead, hcount, retVars, domVars,
                   progVars, box, lg, sg, cur, it, hd, rc, cx>>

\* a drop of a LoadGuard that goes on to release without the reset
loadguard_drop_no_reset(t) ==
    /\ pc[t] = "dl_reset"
    /\ IF cur[t].haz = 0
       THEN /\ cur' = [cur EXCEPT ![t] = NoGuard]
            /\ cx' = [cx EXCEPT ![t] = NoCx]
            /\ Return(t)
       ELSE /\ Goto(t, "dl_release")
            /\ UNCHANGED <<cur, cx>>
    /\ UNCHANGED <<cellVars, heapVars, hazVars, retVars, domVars,
                   progVars, box, lg, sg, lo, it, hd, rc>>

\* ------------------------------------------------ Drop for LoadGuard
\* if let Some(haz_ptr) = self.haz_ptr { haz_ptr.reset(); ... }
\* (lib.rs:740-741, hazard_ptr.rs:17-19)
loadguard_drop_reset(t) ==
    /\ pc[t] = "dl_reset"
    /\ IF cur[t].haz = 0
       THEN /\ cur' = [cur EXCEPT ![t] = NoGuard]
            /\ cx' = [cx EXCEPT ![t] = NoCx]
            /\ Return(t)
            /\ UNCHANGED slots
       ELSE /\ slots' = SetSlot(cur[t].dom, cur[t].haz, "ptr", NULL)
            /\ Goto(t, "dl_release")
            /\ UNCHANGED <<cur, cx>>
    /\ UNCHANGED <<cellVars, heapVars, hhead, hcount, retVars, domVars,
                   progVars, box, lg, sg, lo, it, hd, rc>>

\* a drop of a LoadGuard that returns without the release
loadguard_drop_no_release(t) ==
    /\ pc[t] = "dl_release"
    /\ cur' = [cur EXCEPT ![t] = NoGuard]
    /\ cx' = [cx EXCEPT ![t] = NoCx]
    /\ Return(t)
    /\ UNCHANGED <<cellVars, heapVars, hazVars, retVars, domVars,
                   progVars, box, lg, sg, lo, it, hd, rc>>

\* haz_ptr.release() (lib.rs:742, hazard_ptr.rs:25-27)
loadguard_drop_release(t) ==
    /\ pc[t] = "dl_release"
    /\ slots' = SetSlot(cur[t].dom, cur[t].haz, "active", FALSE)
    /\ cur' = [cur EXCEPT ![t] = NoGuard]
    /\ cx' = [cx EXCEPT ![t] = NoCx]
    /\ Return(t)
    /\ UNCHANGED <<cellVars, heapVars, hhead, hcount, retVars, domVars,
                   progVars, box, lg, sg, lo, it, hd, rc>>


\* ------------------------------------------------------ Domain::retire
\* Drop for StoreGuard (lib.rs:707-720) calls self.domain.retire(self.ptr)
StartRetire(t, guard) ==
    rc' = [rc EXCEPT ![t] = [NoReclaim EXCEPT !.value = guard.ptr,
                                               !.dom = guard.dom]]

\* fence(SeqCst); self.retired.push(Retire::new(value)) up to the head load
\* of push_all (mod.rs:186-188, list.rs:56-68, list.rs:81)
retire(t) ==
    /\ pc[t] = "retire"
    /\ rc' = [rc EXCEPT ![t].fence = "retire"]
    /\ rnext' = [rnext EXCEPT ![rc[t].value] = NULL]
    /\ hd' = [hd EXCEPT ![t] = rhead[rc[t].dom]]
    /\ Goto(t, "rt_cas")
    /\ UNCHANGED <<cellVars, heapVars, hazVars, rhead, rcount, domVars,
                   progVars, box, lg, sg, cur, lo, it, cx>>

\* a push_all that links the old head behind the first node of the chain
\* and not behind its tail
push_all_link_first(t, new_head_ptr, tail, ok, again) ==
    LET d == rc[t].dom IN
    /\ rnext' = [rnext EXCEPT ![new_head_ptr] = hd[t]]
    /\ IF rhead[d] = hd[t]
       THEN /\ rhead' = [rhead EXCEPT ![d] = new_head_ptr]
            /\ hd' = [hd EXCEPT ![t] = NULL]
            /\ Goto(t, ok)
       ELSE /\ hd' = [hd EXCEPT ![t] = rhead[d]]
            /\ Goto(t, again)
            /\ UNCHANGED rhead

\* a push_all that stores the new head without comparing
push_all_store(t, new_head_ptr, tail, ok, again) ==
    /\ rnext' = [rnext EXCEPT ![tail] = hd[t]]
    /\ rhead' = [rhead EXCEPT ![rc[t].dom] = new_head_ptr]
    /\ hd' = [hd EXCEPT ![t] = NULL]
    /\ Goto(t, ok)

\* the loop body of push_all (list.rs:82-99) for the chain that starts at
\* new_head_ptr and ends at the node tail: tail.next = head_ptr, then the
\* compare_exchange_weak on head
push_all_cas(t, new_head_ptr, tail, ok, again) ==
    LET d == rc[t].dom IN
    /\ rnext' = [rnext EXCEPT ![tail] = hd[t]]
    /\ IF rhead[d] = hd[t]
       THEN /\ rhead' = [rhead EXCEPT ![d] = new_head_ptr]
            /\ hd' = [hd EXCEPT ![t] = NULL]
            /\ Goto(t, ok)
       ELSE /\ hd' = [hd EXCEPT ![t] = rhead[d]]
            /\ Goto(t, again)
            /\ UNCHANGED rhead

retire_push_cas(t) ==
    /\ pc[t] = "rt_cas"
    /\ push_all_cas(t, rc[t].value, rc[t].value, "rt_count", "rt_cas")
    /\ UNCHANGED <<cellVars, heapVars, hazVars, rcount, domVars, progVars,
                   box, lg, sg, cur, lo, it, rc, cx>>

\* count.fetch_add(1) of push_all (list.rs:91-92)
retire_push_count(t) ==
    /\ pc[t] = "rt_count"
    /\ rcount' = [rcount EXCEPT ![rc[t].dom] = @ + 1]
    /\ Goto(t, "rt_should")
    /\ UNCHANGED <<cellVars, heapVars, hazVars, rnext, rhead, domVars,
                   progVars, box, lg, sg, cur, lo, it, hd, rc, cx>>

\* the if of TimedCappedSettings::should_reclaim
\* (reclaim_strategy.rs:149-154); when it is false the call goes on to
\* check_sync_time
TimedCappedSettings_should_reclaim(self, hazard_pointer_count, retired_count) ==
    /\ retired_count >= self.retired_threshold
    /\ retired_count >= hazard_pointer_count * self.hazard_pointer_multiplier

\* a strategy that asks for a reclamation at every retire
should_reclaim_always(s, hazard_pointer_count, retired_count) == TRUE

\* ReclaimStrategy::should_reclaim (reclaim_strategy.rs:33-41)
ReclaimStrategy_should_reclaim(s, hazard_pointer_count, retired_count) ==
    CASE s.kind = "Eager" -> TRUE
      [] s.kind = "TimedCapped" ->
            TimedCappedSettings_should_reclaim(s.settings,
                                               hazard_pointer_count,
                                               retired_count)
      [] s.kind = "Manual" -> FALSE

\* Domain::should_reclaim (mod.rs:194-199): the retired count is passed for
\* both arguments
should_reclaim(d) ==
    ReclaimStrategy_should_reclaim(strategy[d], rcount[d], rcount[d])

\* what bulk_reclaim hands back to retire, which ignores it (mod.rs:190)
bulk_reclaim_return(t) ==
    /\ rc' = [rc EXCEPT ![t] = NoReclaim]
    /\ Return(t)

\* if self.should_reclaim() { self.bulk_reclaim(); } (mod.rs:189-191)
retire_should_reclaim(t) ==
    /\ pc[t] = "rt_should"
    /\ IF strategy[rc[t].dom].kind = "TimedCapped"
       THEN /\ rc' = [rc EXCEPT ![t].hazard_pointer_count = rcount[rc[t].dom]]
            /\ Goto(t, "sr_count")
       ELSE IF should_reclaim(rc[t].dom)
            THEN Goto(t, "br_swap") /\ UNCHANGED rc
            ELSE bulk_reclaim_return(t)
    /\ UNCHANGED <<cellVars, heapVars, hazVars, retVars, domVars, progVars,
                   box, lg, sg, cur, lo, it, hd, cx>>

\* ------------------------------- TimedCappedSettings::should_reclaim
\* the second self.retired.count.load(Acquire) of Domain::should_reclaim
\* (mod.rs:197) and the if of TimedCappedSettings::should_reclaim
\* (reclaim_strategy.rs:149-155)
should_reclaim_count(t) ==
    /\ pc[t] = "sr_count"
    /\ LET d == rc[t].dom IN
       /\ rc' = [rc EXCEPT ![t].retired_count = rcount[d]]
       /\ IF ReclaimStrategy_should_reclaim(strategy[d],
                                            rc[t].hazard_pointer_count,
                                            rcount[d])
          THEN Goto(t, "br_swap")
          ELSE Goto(t, "cs_time")
    /\ UNCHANGED <<cellVars, heapVars, hazVars, retVars, domVars, progVars,
                   box, lg, sg, cur, lo, it, hd, cx>>

\* ------------------------------- TimedCappedSettings::check_sync_time
\* let time = SystemTime::now() .. as_nanos() (reclaim_strategy.rs:161-167)
check_sync_time_now(t) ==
    /\ pc[t] = "cs_time"
    /\ rc' = [rc EXCEPT ![t].time = now]
    /\ Goto(t, "cs_load")
    /\ UNCHANGED <<cellVars, heapVars, hazVars, retVars, domVars, progVars,
                   box, lg, sg, cur, lo, it, hd, cx>>

\* let last_sync_time = self.last_sync_time.load(Relaxed); time >
\* last_sync_time && .. (reclaim_strategy.rs:168-171)
check_sync_time_load(t) ==
    /\ pc[t] = "cs_load"
    /\ LET last == strategy[rc[t].dom].settings.last_sync_time IN
       IF rc[t].time > last
       THEN /\ rc' = [rc EXCEPT ![t].last_sync_time = last]
            /\ Goto(t, "cs_cas")
       ELSE bulk_reclaim_return(t)
    /\ UNCHANGED <<cellVars, heapVars, hazVars, retVars, domVars, progVars,
                   box, lg, sg, cur, lo, it, hd, cx>>

\* a check_sync_time that stores the new time whatever last_sync_time holds
check_sync_time_store(t) ==
    /\ pc[t] = "cs_cas"
    /\ strategy' = [strategy EXCEPT ![rc[t].dom].settings.last_sync_time =
                      rc[t].time + strategy[rc[t].dom].settings.sync_timeout]
    /\ Goto(t, "br_swap")
    /\ UNCHANGED <<cellVars, heapVars, hazVars, retVars, alive, now,
                   bicephaly, progVars, box, lg, sg, cur, lo, it, hd, rc, cx>>

\* self.last_sync_time.compare_exchange(last_sync_time, time +
\* self.sync_timeout.as_nanos(), Relaxed, Relaxed).is_ok()
\* (reclaim_strategy.rs:172-180); on true retire calls bulk_reclaim
\* (mod.rs:189-191)
check_sync_time_cas(t) ==
    /\ pc[t] = "cs_cas"
    /\ LET d == rc[t].dom
           self == strategy[d].settings IN
       IF self.last_sync_time = rc[t].last_sync_time
       THEN /\ strategy' = [strategy EXCEPT ![d].settings.last_sync_time =
                              rc[t].time + self.sync_timeout]
            /\ Goto(t, "br_swap")
            /\ UNCHANGED rc
       ELSE /\ bulk_reclaim_return(t)
            /\ UNCHANGED strategy
    /\ UNCHANGED <<cellVars, heapVars, hazVars, retVars, alive, now,
                   bicephaly, progVars, box, lg, sg, cur, lo, it, hd, cx>>

\* the steps of TimedCappedSettings::should_reclaim
TimedStep(t) ==
    \/ should_reclaim_count(t)
    \/ check_sync_time_now(t)
    \/ check_sync_time_load(t)
    \/ check_sync_time_cas(t)

\* the system clock advances
Tick ==
    /\ now < MaxTime
    /\ now' = now + 1
    /\ UNCHANGED <<cellVars, heapVars, hazVars, retVars, strategy, alive,
                   bicephaly, progVars, pc, ret, box, lg, sg, cur, lo, it, hd,
                   rc, cx>>

\* ------------------------------------------------ Domain::bulk_reclaim
\* a bulk_reclaim that loads the head of the retire list and leaves it there
bulk_reclaim_load(t) ==
    /\ pc[t] = "br_swap"
    /\ rc' = [rc EXCEPT ![t].chain = rhead[rc[t].dom], ![t].fence = "drain"]
    /\ Goto(t, "br_count")
    /\ UNCHANGED <<cellVars, heapVars, hazVars, retVars, domVars, progVars,
                   box, lg, sg, cur, lo, it, hd, cx>>

\* let retired_list = self.retired.head.swap(null, Acquire); fence
\* (mod.rs:222-227)
bulk_reclaim_swap(t) ==
    /\ pc[t] = "br_swap"
    /\ rc' = [rc EXCEPT ![t].chain = rhead[rc[t].dom], ![t].fence = "drain"]
    /\ rhead' = [rhead EXCEPT ![rc[t].dom] = NULL]
    /\ Goto(t, "br_count")
    /\ UNCHANGED <<cellVars, heapVars, hazVars, rnext, rcount, domVars,
                   progVars, box, lg, sg, cur, lo, it, hd, cx>>

\* self.retired.count.store(0); if retired_list.is_null() { return 0; }
\* (mod.rs:229-232)
bulk_reclaim_count(t) ==
    /\ pc[t] = "br_count"
    /\ rcount' = [rcount EXCEPT ![rc[t].dom] = 0]
    /\ IF rc[t].chain = NULL
       THEN bulk_reclaim_return(t)
       ELSE Goto(t, "gp_iter") /\ UNCHANGED rc
    /\ UNCHANGED <<cellVars, heapVars, hazVars, rnext, rhead, domVars,
                   progVars, box, lg, sg, cur, lo, it, hd, cx>>

\* get_guarded_ptrs: self.hazard_ptrs.iter() (mod.rs:298-300, list.rs:104-109)
get_guarded_ptrs_iter(t) ==
    /\ pc[t] = "gp_iter"
    /\ it' = [it EXCEPT ![t] = hhead[rc[t].dom]]
    /\ Goto(t, "gp_next")
    /\ UNCHANGED <<cellVars, heapVars, hazVars, retVars, domVars, progVars,
                   box, lg, sg, cur, lo, hd, rc, cx>>

\* a scan that finds no hazard pointer set
guarded_none(node) == {}

\* a scan that takes the ptr of every active slot, null or not
guarded_ptr_if_active(node) == IF node.active THEN {node.ptr} ELSE {}

\* the closure of filter_map (mod.rs:301-308): a null pointer is left out
guarded_ptr_of(node) == IF node.ptr = NULL THEN {} ELSE {node.ptr}

\* one ListIterator::next and the closure on the node (list.rs:30-42,
\* mod.rs:301-309)
get_guarded_ptrs_next(t) ==
    /\ pc[t] = "gp_next"
    /\ IF it[t] = NULL
       THEN /\ Goto(t, "ru_loop")
            /\ UNCHANGED <<it, rc>>
       ELSE LET node == slots[rc[t].dom][it[t]] IN
            /\ rc' = [rc EXCEPT ![t].guarded = @ \cup guarded_ptr_of(node)]
            /\ it' = [it EXCEPT ![t] = node.next]
            /\ Goto(t, "gp_next")
    /\ UNCHANGED <<cellVars, heapVars, hazVars, retVars, domVars, progVars,
                   box, lg, sg, cur, lo, hd, cx>>

\* a reclaim_unguarded that takes no entry for guarded
is_guarded_never(guarded_ptrs, p) == FALSE

\* guarded_ptrs.contains(&node.value.ptr) (mod.rs:253)
is_guarded(guarded_ptrs, p) == p \in guarded_ptrs

\* a reclaim_unguarded that frees the node and leaves the value alone
drop_in_place_skip(a) == UNCHANGED drops

\* core::ptr::drop_in_place(node.value.retirable) (mod.rs:271)
drop_in_place(a) == drops' = [drops EXCEPT ![a] = IF @ < 2 THEN @ + 1 ELSE @]

\* one iteration of the loop of reclaim_unguarded (mod.rs:247-283), and
\* after the loop the test of tail_ptr, the fence and the head load of
\* push_all (mod.rs:285-292, list.rs:81)
reclaim_unguarded_loop(t) ==
    /\ pc[t] = "ru_loop"
    /\ LET node_ptr == rc[t].chain IN
       IF node_ptr = NULL
       THEN /\ IF rc[t].tail # NULL
               THEN /\ rc' = [rc EXCEPT ![t].fence = "repush"]
                    /\ hd' = [hd EXCEPT ![t] = rhead[rc[t].dom]]
                    /\ Goto(t, "pa_cas")
               ELSE /\ bulk_reclaim_return(t)
                    /\ UNCHANGED hd
            /\ UNCHANGED <<rnext, drops>>
       ELSE LET next == rnext[node_ptr] IN
            /\ IF is_guarded(rc[t].guarded, node_ptr)
               THEN /\ rnext' = [rnext EXCEPT ![node_ptr] = rc[t].still]
                    /\ rc' = [rc EXCEPT ![t].still = node_ptr,
                                        ![t].tail = IF @ = NULL THEN node_ptr ELSE @,
                                        ![t].remaining = @ + 1,
                                        ![t].chain = next]
                    /\ UNCHANGED drops
               ELSE /\ drop_in_place(node_ptr)
                    /\ rnext' = [rnext EXCEPT ![node_ptr] = NULL]
                    /\ rc' = [rc EXCEPT ![t].reclaimed = @ + 1,
                                        ![t].chain = next]
            /\ Goto(t, "ru_loop")
            /\ UNCHANGED hd
    /\ UNCHANGED <<cellVars, val, nalloc, hazVars, rhead, rcount, domVars,
                   progVars, box, lg, sg, cur, lo, it, cx>>

\* self.retired.push_all(still_retired, tail, number_remaining): the loop
\* body of push_all (mod.rs:291, list.rs:82-99)
reclaim_push_all_cas(t) ==
    /\ pc[t] = "pa_cas"
    /\ push_all_cas(t, rc[t].still, rc[t].tail, "pa_count", "pa_cas")
    /\ UNCHANGED <<cellVars, heapVars, hazVars, rcount, domVars, progVars,
                   box, lg, sg, cur, lo, it, rc, cx>>

\* count.fetch_add(number_remaining) of push_all (list.rs:91-92)
reclaim_push_all_count(t) ==
    /\ pc[t] = "pa_count"
    /\ rcount' = [rcount EXCEPT ![rc[t].dom] = @ + rc[t].remaining]
    /\ bulk_reclaim_return(t)
    /\ UNCHANGED <<cellVars, heapVars, hazVars, rnext, rhead, domVars,
                   progVars, box, lg, sg, cur, lo, it, hd, cx>>


\* ------------------------------------------------- AtomBox write methods
\* from_guard methods without their assert
same_domain_unchecked(guard, b) == TRUE

\* std::ptr::eq(new_value.domain, self.domain) (lib.rs:360, 499, 654)
SameDomain(guard, b) == guard.dom = boxdom[b]

\* a swap whose StoreGuard holds the pointer it has just installed
swap_returns_new(t, b, v) ==
    /\ CanAlloc
    /\ Alloc(v)
    /\ ptr' = [ptr EXCEPT ![b] = NewAddr]
    /\ sg' = [sg EXCEPT ![t] = StoreGuard(NewAddr, boxdom[b])]

\* AtomBox::swap (lib.rs:308-315): the new value is boxed and exchanged with
\* the installed pointer; the StoreGuard holds the old pointer
swap(t, b, v) ==
    /\ CanAlloc
    /\ Alloc(v)
    /\ ptr' = [ptr EXCEPT ![b] = NewAddr]
    /\ sg' = [sg EXCEPT ![t] = StoreGuard(ptr[b], boxdom[b])]

\* a swap_from_guard that hands back the guard it was given
swap_from_guard_same(t, b, new_value) ==
    /\ ptr' = [ptr EXCEPT ![b] = new_value.ptr]
    /\ sg' = [sg EXCEPT ![t] = StoreGuard(new_value.ptr, boxdom[b])]

\* a swap_from_guard that loads the installed pointer and installs nothing
swap_from_guard_load(t, b, new_value) ==
    /\ ptr' = ptr
    /\ sg' = [sg EXCEPT ![t] = StoreGuard(ptr[b], boxdom[b])]

\* AtomBox::swap_from_guard past its assert (lib.rs:364-370): the guard is
\* forgotten and its pointer exchanged with the installed pointer
swap_from_guard(t, b, new_value) ==
    /\ ptr' = [ptr EXCEPT ![b] = new_value.ptr]
    /\ sg' = [sg EXCEPT ![t] = StoreGuard(ptr[b], boxdom[b])]

\* a compare-and-swap that always stores
cas_always(installed, current, spurious) == TRUE
\* a compare-and-swap that does not compare
cas_unchecked(installed, current, spurious) == ~spurious

\* AtomicPtr::compare_exchange / compare_exchange_weak as used by the four
\* compare_exchange methods (lib.rs:413-418, 504-509, 568-573, 659-664):
\* it succeeds iff the installed pointer equals current, and the weak one
\* may fail spuriously
cas_succeeds(installed, current, spurious) == installed = current /\ ~spurious

\* the record of a compare_exchange in progress: its result, the new
\* pointer, the pointer of current_value and the pointer the CAS observed
CxRecord(res, b, new_ptr, current, observed, weak, from_guard) ==
    [res |-> res, box |-> b, new |-> new_ptr, current |-> current,
     observed |-> observed, weak |-> weak, from_guard |-> from_guard]

\* an Err arm that hands back the pointer of current_value
err_guard_stale(found, current, d) == LoadGuard(current, d, 0)

\* Err(ptr) => Err(LoadGuard { ptr, domain: self.domain, haz_ptr: None })
\* (lib.rs:423-427, 516-524, 578-582, 671-679): ptr is the pointer the failed
\* compare-and-swap found in the cell
err_guard(found, current, d) == LoadGuard(found, d, 0)

\* AtomBox::compare_exchange and compare_exchange_weak (lib.rs:407-429,
\* 562-584) up to the drop of current_value: Ok(StoreGuard { ptr }) or
\* Err(LoadGuard { ptr, haz_ptr: None })
compare_exchange(t, b, v, weak, spurious) ==
    /\ CanAlloc
    /\ Alloc(v)
    /\ cur' = [cur EXCEPT ![t] = lg[t]]
    /\ IF cas_succeeds(ptr[b], lg[t].ptr, spurious)
       THEN /\ ptr' = [ptr EXCEPT ![b] = NewAddr]
            /\ sg' = [sg EXCEPT ![t] = StoreGuard(ptr[b], boxdom[b])]
            /\ lg' = [lg EXCEPT ![t] = NoGuard]
            /\ cx' = [cx EXCEPT ![t] =
                 CxRecord("ok", b, NewAddr, lg[t].ptr, ptr[b], weak, FALSE)]
       ELSE /\ lg' = [lg EXCEPT ![t] = err_guard(ptr[b], lg[t].ptr, boxdom[b])]
            /\ cx' = [cx EXCEPT ![t] =
                 CxRecord("err", b, NewAddr, lg[t].ptr, ptr[b], weak, FALSE)]
            /\ UNCHANGED <<ptr, sg>>

\* a compare_exchange_from_guard whose Err arm does not hand new_value back
compare_exchange_from_guard_consume(t, b, weak, spurious) ==
    /\ cur' = [cur EXCEPT ![t] = lg[t]]
    /\ IF cas_succeeds(ptr[b], lg[t].ptr, spurious)
       THEN /\ ptr' = [ptr EXCEPT ![b] = sg[t].ptr]
            /\ sg' = [sg EXCEPT ![t] = StoreGuard(ptr[b], boxdom[b])]
            /\ lg' = [lg EXCEPT ![t] = NoGuard]
            /\ cx' = [cx EXCEPT ![t] =
                 CxRecord("ok", b, sg[t].ptr, lg[t].ptr, ptr[b], weak, TRUE)]
       ELSE /\ lg' = [lg EXCEPT ![t] = err_guard(ptr[b], lg[t].ptr, boxdom[b])]
            /\ sg' = [sg EXCEPT ![t] = NoGuard]
            /\ cx' = [cx EXCEPT ![t] =
                 CxRecord("err", b, sg[t].ptr, lg[t].ptr, ptr[b], weak, TRUE)]
            /\ UNCHANGED ptr

\* AtomBox::compare_exchange_from_guard and compare_exchange_weak_from_guard
\* past their assert (lib.rs:503-525, 658-680): on success new_value is
\* forgotten, on failure it is handed back with the LoadGuard
compare_exchange_from_guard(t, b, weak, spurious) ==
    /\ cur' = [cur EXCEPT ![t] = lg[t]]
    /\ IF cas_succeeds(ptr[b], lg[t].ptr, spurious)
       THEN /\ ptr' = [ptr EXCEPT ![b] = sg[t].ptr]
            /\ sg' = [sg EXCEPT ![t] = StoreGuard(ptr[b], boxdom[b])]
            /\ lg' = [lg EXCEPT ![t] = NoGuard]
            /\ cx' = [cx EXCEPT ![t] =
                 CxRecord("ok", b, sg[t].ptr, lg[t].ptr, ptr[b], weak, TRUE)]
       ELSE /\ lg' = [lg EXCEPT ![t] = err_guard(ptr[b], lg[t].ptr, boxdom[b])]
            /\ cx' = [cx EXCEPT ![t] =
                 CxRecord("err", b, sg[t].ptr, lg[t].ptr, ptr[b], weak, TRUE)]
            /\ UNCHANGED <<ptr, sg>>

\* Deref for LoadGuard (lib.rs:747-757): a read through the raw pointer.
\* Reading a value whose destructor has run is undefined: any value may be
\* seen.
reads_dropped(guard) == drops[guard.ptr] > 0
deref(t, guard, v) ==
    /\ ~reads_dropped(guard) => v = val[guard.ptr]
    /\ seen' = [seen EXCEPT ![t] = v]
    /\ uaf' = [uaf EXCEPT ![t] = @ \/ reads_dropped(guard)]


\* ------------------------------------------------- the general harness
\* A thread that is idle calls any method of any AtomBox, dereferences or
\* drops a guard it holds.  It holds at most one LoadGuard and one
\* StoreGuard at a time.
Acquiring(d) ==
    {u \in AllThreads : /\ pc[u] \in {"acquire", "ga_find", "ga_try", "new_haz"}
                        /\ Dom(u) = d}
SlotsLeft(d) == Len(slots[d]) + Cardinality(Acquiring(d)) < bound.slots

\* let value = atom_box.load()
Load(t) ==
    /\ pc[t] = "idle"
    /\ lg[t] = NoGuard
    /\ \E b \in Boxes :
        /\ boxalive[b]
        /\ SlotsLeft(boxdom[b])
        /\ box' = [box EXCEPT ![t] = b]
    /\ Call(t, "acquire", "idle")
    /\ UNCHANGED <<cellVars, heapVars, hazVars, retVars, domVars, progVars,
                   lg, sg, cur, lo, it, hd, rc, cx>>

\* *value for a LoadGuard; the general harness does not use what it reads
DerefLoadGuard(t) ==
    /\ pc[t] = "idle"
    /\ lg[t] # NoGuard
    /\ uaf' = [uaf EXCEPT ![t] = @ \/ reads_dropped(lg[t])]
    /\ UNCHANGED <<cellVars, heapVars, hazVars, retVars, domVars, seen, iter,
                   bound, pc, ret, box, lg, sg, cur, lo, it, hd, rc, cx>>

\* drop(value) for a LoadGuard
DropLoadGuard(t) ==
    /\ pc[t] = "idle"
    /\ lg[t] # NoGuard
    /\ cur' = [cur EXCEPT ![t] = lg[t]]
    /\ lg' = [lg EXCEPT ![t] = NoGuard]
    /\ Call(t, "dl_reset", "idle")
    /\ UNCHANGED <<cellVars, heapVars, hazVars, retVars, domVars, progVars,
                   box, sg, lo, it, hd, rc, cx>>

\* let guard = atom_box.swap(v)
Swap(t) ==
    /\ pc[t] = "idle"
    /\ sg[t] = NoGuard
    /\ \E b \in Boxes :
        /\ boxalive[b]
        /\ swap(t, b, NewAddr)
    /\ UNCHANGED <<boxdom, boxalive, drops, hazVars, retVars, domVars,
                   progVars, pc, ret, box, lg, cur, lo, it, hd, rc, cx>>

\* drop(guard) for a StoreGuard (lib.rs:707-720)
DropStoreGuard(t) ==
    /\ pc[t] = "idle"
    /\ sg[t] # NoGuard
    /\ StartRetire(t, sg[t])
    /\ sg' = [sg EXCEPT ![t] = NoGuard]
    /\ Call(t, "retire", "idle")
    /\ UNCHANGED <<cellVars, heapVars, hazVars, retVars, domVars, progVars,
                   box, lg, cur, lo, it, hd, cx>>

\* a store that installs the value and forgets the displaced one
store_forget(t) ==
    /\ pc[t] = "idle"
    /\ \E b \in Boxes :
        /\ boxalive[b]
        /\ CanAlloc
        /\ Alloc(NewAddr)
        /\ ptr' = [ptr EXCEPT ![b] = NewAddr]
    /\ UNCHANGED <<boxdom, boxalive, drops, hazVars, retVars, domVars,
                   progVars, pc, ret, box, lg, sg, cur, lo, it, hd, rc, cx>>

\* atom_box.store(v) (lib.rs:264-266): let _ = self.swap(value)
Store(t) ==
    /\ pc[t] = "idle"
    /\ \E b \in Boxes :
        /\ boxalive[b]
        /\ CanAlloc
        /\ Alloc(NewAddr)
        /\ ptr' = [ptr EXCEPT ![b] = NewAddr]
        /\ StartRetire(t, StoreGuard(ptr[b], boxdom[b]))
    /\ Call(t, "retire", "idle")
    /\ UNCHANGED <<boxdom, boxalive, drops, hazVars, retVars, domVars,
                   progVars, box, lg, sg, cur, lo, it, hd, cx>>

\* the failed assert of a from_guard method (lib.rs:359-362, 498-501,
\* 653-656): the panic unwinds, dropping new_value and then current_value
PanicFromGuard(t, with_current) ==
    /\ StartRetire(t, sg[t])
    /\ sg' = [sg EXCEPT ![t] = NoGuard]
    /\ pc' = [pc EXCEPT ![t] = "retire"]
    /\ IF with_current
       THEN /\ cur' = [cur EXCEPT ![t] = lg[t]]
            /\ lg' = [lg EXCEPT ![t] = NoGuard]
            /\ ret' = [ret EXCEPT ![t] = <<"dl_reset", "panicked">>]
       ELSE /\ ret' = [ret EXCEPT ![t] = <<"panicked">>]
            /\ UNCHANGED <<cur, lg>>

\* let guard2 = atom_box.swap_from_guard(guard) (lib.rs:355-371)
SwapFromGuard(t) ==
    /\ pc[t] = "idle"
    /\ sg[t] # NoGuard
    /\ \E b \in Boxes :
        /\ boxalive[b]
        /\ IF SameDomain(sg[t], b)
           THEN /\ swap_from_guard(t, b, sg[t])
                /\ UNCHANGED <<pc, ret, rc, cur, lg>>
           ELSE /\ PanicFromGuard(t, FALSE)
                /\ UNCHANGED ptr
    /\ UNCHANGED <<boxdom, boxalive, heapVars, hazVars, retVars, domVars,
                   progVars, box, lo, it, hd, cx>>

\* atom_box.store_from_guard(guard) (lib.rs:288-290):
\* let _ = self.swap_from_guard(value)
StoreFromGuard(t) ==
    /\ pc[t] = "idle"
    /\ sg[t] # NoGuard
    /\ \E b \in Boxes :
        /\ boxalive[b]
        /\ IF SameDomain(sg[t], b)
           THEN /\ ptr' = [ptr EXCEPT ![b] = sg[t].ptr]
                /\ StartRetire(t, StoreGuard(ptr[b], boxdom[b]))
                /\ sg' = [sg EXCEPT ![t] = NoGuard]
                /\ Call(t, "retire", "idle")
                /\ UNCHANGED <<cur, lg>>
           ELSE /\ PanicFromGuard(t, FALSE)
                /\ UNCHANGED ptr
    /\ UNCHANGED <<boxdom, boxalive, heapVars, hazVars, retVars, domVars,
                   progVars, box, lo, it, hd, cx>>

\* atom_box.compare_exchange(current_value, v) and compare_exchange_weak
\* (lib.rs:407-429, 562-584); current_value is dropped when they return
CompareExchange(t) ==
    /\ pc[t] = "idle"
    /\ lg[t] # NoGuard
    /\ sg[t] = NoGuard
    /\ \E b \in Boxes, weak \in BOOLEAN, spurious \in BOOLEAN :
        /\ boxalive[b]
        /\ spurious => weak
        /\ compare_exchange(t, b, NewAddr, weak, spurious)
    /\ Call(t, "dl_reset", "idle")
    /\ UNCHANGED <<boxdom, boxalive, drops, hazVars, retVars, domVars,
                   progVars, box, lo, it, hd, rc>>

\* atom_box.compare_exchange_from_guard(current_value, guard) and
\* compare_exchange_weak_from_guard (lib.rs:487-526, 642-681)
CompareExchangeFromGuard(t) ==
    /\ pc[t] = "idle"
    /\ lg[t] # NoGuard
    /\ sg[t] # NoGuard
    /\ \E b \in Boxes, weak \in BOOLEAN, spurious \in BOOLEAN :
        /\ boxalive[b]
        /\ spurious => weak
        /\ IF SameDomain(sg[t], b)
           THEN /\ compare_exchange_from_guard(t, b, weak, spurious)
                /\ Call(t, "dl_reset", "idle")
                /\ UNCHANGED rc
           ELSE /\ PanicFromGuard(t, TRUE)
                /\ UNCHANGED <<ptr, cx>>
    /\ UNCHANGED <<boxdom, boxalive, heapVars, hazVars, retVars, domVars,
                   progVars, box, lo, it, hd>>

\* let value = atom_box.load(), where seen[t] keeps the pointer that is
\* installed in the cell when the call starts
LoadAfter(t) ==
    /\ pc[t] = "idle"
    /\ lg[t] = NoGuard
    /\ \E b \in Boxes :
        /\ boxalive[b]
        /\ SlotsLeft(boxdom[b])
        /\ box' = [box EXCEPT ![t] = b]
        /\ seen' = [seen EXCEPT ![t] = ptr[b]]
    /\ Call(t, "acquire", "idle")
    /\ UNCHANGED <<cellVars, heapVars, hazVars, retVars, domVars, uaf, iter,
                   bound, lg, sg, cur, lo, it, hd, rc, cx>>

\* Domain::reclaim (mod.rs:217-219): self.bulk_reclaim(), called by the user
Reclaim(t) ==
    /\ pc[t] = "idle"
    /\ \E d \in Domains :
        /\ alive[d] = "live"
        /\ \E b \in Boxes : boxalive[b] /\ boxdom[b] = d
        /\ rc' = [rc EXCEPT ![t] = [NoReclaim EXCEPT !.dom = d]]
    /\ Call(t, "br_swap", "idle")
    /\ UNCHANGED <<cellVars, heapVars, hazVars, retVars, domVars, progVars,
                   box, lg, sg, cur, lo, it, hd, cx>>

\* core::mem::forget(guard): the LoadGuard goes away without Drop for
\* LoadGuard (lib.rs:738-745), so its hazard pointer stays set and active
ForgetLoadGuard(t) ==
    /\ pc[t] = "idle"
    /\ lg[t].haz # 0
    /\ lg' = [lg EXCEPT ![t] = NoGuard]
    /\ UNCHANGED <<cellVars, heapVars, hazVars, retVars, domVars, progVars,
                   pc, ret, box, sg, cur, lo, it, hd, rc, cx>>

\* the steps of AtomBox::load and of Drop for LoadGuard
LoadPcs ==
    {"acquire", "ga_find", "ga_try", "new_haz", "new_cas", "new_count",
     "ld_read", "ld_protect", "ld_check", "ld_reset"}
DropLoadGuardPcs == {"dl_reset", "dl_release"}

\* no other thread is inside a load or the drop of a LoadGuard
NoOverlap(t) ==
    \A u \in AllThreads \ {t} : pc[u] \notin LoadPcs \cup DropLoadGuardPcs

\* a load that starts when no load or guard drop is in progress
SerialLoad(t) == NoOverlap(t) /\ Load(t)

\* a guard drop that starts when no load or guard drop is in progress
SerialDropLoadGuard(t) == NoOverlap(t) /\ DropLoadGuard(t)

\* ------------------------------------------- constructing Domains and cells
\* the const parameter of the type of Domain d where the run constructs its
\* Domains: Domain 1 is a Domain<0>, Domain 2 a Domain<1> (mod.rs:116)
DOMAIN_ID(d) == d - 1

\* a Domain::new whose assert is compiled into no build
new_asserts_never(nightly) == FALSE

\* the assert of Domain::new is compiled under cfg(all(nightly, not(loom)))
\* (mod.rs:139-140)
new_asserts(nightly) == nightly

\* Domain::new(reclaim_strategy) (mod.rs:137-143): on a build with the
\* assert, a DOMAIN_ID equal to SHARED_DOMAIN_ID panics; otherwise
\* Self::_new(reclaim_strategy) makes the Domain with empty lists
\* (mod.rs:145-155)
Domain_new(t, d, reclaim_strategy) ==
    /\ pc[t] = "idle"
    /\ alive[d] = "none"
    /\ IF new_asserts(bound.nightly) /\ DOMAIN_ID(d) = SHARED_DOMAIN_ID
       THEN /\ pc' = [pc EXCEPT ![t] = "panicked"]
            /\ UNCHANGED <<alive, strategy>>
       ELSE /\ alive' = [alive EXCEPT ![d] = "live"]
            /\ strategy' = [strategy EXCEPT ![d] = reclaim_strategy]
            /\ UNCHANGED pc
    /\ UNCHANGED <<cellVars, heapVars, hazVars, retVars, now, bicephaly,
                   progVars, ret, box, lg, sg, cur, lo, it, hd, rc, cx>>

\* AtomBox::new_with_domain(value, &domain) (lib.rs:205-208): the value is
\* boxed and the cell refers to the Domain
AtomBox_new_with_domain(t, b, d) ==
    /\ pc[t] = "idle"
    /\ alive[d] = "live"
    /\ ~boxalive[b] /\ ptr[b] = NULL
    /\ CanAlloc
    /\ Alloc(0)
    /\ ptr' = [ptr EXCEPT ![b] = NewAddr]
    /\ boxdom' = [boxdom EXCEPT ![b] = d]
    /\ boxalive' = [boxalive EXCEPT ![b] = TRUE]
    /\ UNCHANGED <<drops, hazVars, retVars, domVars, progVars, pc, ret, box,
                   lg, sg, cur, lo, it, hd, rc, cx>>

\* ------------------------------------------- dropping cells and Domains
\* drop(atom_box): AtomBox has no Drop impl (lib.rs:121-124), so only the
\* memory of the cell itself goes away.  No method of the cell is running.
DropBox(t) ==
    /\ pc[t] = "idle"
    /\ \E b \in Boxes :
        /\ boxalive[b]
        /\ \A u \in AllThreads : box[u] # b
        /\ boxalive' = [boxalive EXCEPT ![b] = FALSE]
    /\ UNCHANGED <<ptr, boxdom, heapVars, hazVars, retVars, domVars, progVars,
                   pc, ret, box, lg, sg, cur, lo, it, hd, rc, cx>>

\* what borrows Domain d: its cells, the guards and the calls in progress
Borrowed(d) ==
    \/ \E b \in Boxes : boxalive[b] /\ boxdom[b] = d
    \/ \E u \in AllThreads : lg[u].dom = d \/ sg[u].dom = d \/ cur[u].dom = d
    \/ \E u \in AllThreads : rc[u].dom = d

\* Drop for Domain (mod.rs:313-315): self.bulk_reclaim()
DropDomain(t) ==
    /\ pc[t] = "idle"
    /\ \E d \in Domains :
        /\ alive[d] = "live"
        /\ \E b \in Boxes : boxdom[b] = d /\ ptr[b] # NULL
        /\ ~Borrowed(d)
        /\ alive' = [alive EXCEPT ![d] = "dropping"]
        /\ rc' = [rc EXCEPT ![t] = [NoReclaim EXCEPT !.dom = d]]
    /\ Call(t, "br_swap", "dd_assert")
    /\ UNCHANGED <<cellVars, heapVars, hazVars, retVars, strategy, now,
                   bicephaly, progVars,
                   box, lg, sg, cur, lo, it, hd, cx>>

\* assert!(self.retired.head.load(Relaxed).is_null()) (mod.rs:316), then the
\* fields are dropped: the lists free their nodes (list.rs:112-120)
domain_drop_assert(t) ==
    /\ pc[t] = "dd_assert"
    /\ LET d == CHOOSE e \in Domains : alive[e] = "dropping" IN
       IF rhead[d] = NULL
       THEN /\ alive' = [alive EXCEPT ![d] = "dropped"]
            /\ slots' = [slots EXCEPT ![d] = <<>>]
            /\ hhead' = [hhead EXCEPT ![d] = NULL]
            /\ hcount' = [hcount EXCEPT ![d] = 0]
            /\ Goto(t, "idle")
       ELSE /\ Goto(t, "panicked")
            /\ UNCHANGED <<alive, hazVars>>
    /\ UNCHANGED <<cellVars, heapVars, retVars, strategy, now, bicephaly,
                   progVars,
                   box, lg, sg, cur, lo, it, hd, rc, cx>>

\* ------------------------------------------------ the single writer test
\* the writer of concurrency_swap_with_static_ref
\* (tests/concurrency_tests.rs:41-43): atom_box1.swap(Value(i)) for
\* i = 1, 2, ... by thread 1, as long as the run allocates
writer_swap(t) ==
    /\ t = 1
    /\ pc[t] = "idle"
    /\ sg[t] = NoGuard
    /\ swap(t, 1, iter[t] + 1)
    /\ iter' = [iter EXCEPT ![t] = @ + 1]
    /\ UNCHANGED <<boxdom, boxalive, drops, hazVars, retVars, domVars,
                   seen, uaf, bound, pc, ret, box, lg, cur, lo, it, hd, rc, cx>>

\* new_value.0 of the reader (tests/concurrency_tests.rs:35-37): the value
\* read through the LoadGuard is kept as current_value
reader_deref(t) ==
    /\ pc[t] = "idle"
    /\ lg[t] # NoGuard
    /\ \E v \in Values : deref(t, lg[t], v)
    /\ UNCHANGED <<cellVars, heapVars, hazVars, retVars, domVars, iter, bound,
                   pc, ret, box, lg, sg, cur, lo, it, hd, rc, cx>>

\* ------------------------------------------- the compare_exchange test
\* A thread of concurrency_test_compare_exchange_with_static_ref and of
\* concurrency_test_compare_exchange_weak_with_static_ref
\* (tests/concurrency_tests.rs:65-78, 128-141).  The loads that follow the
\* loop (79-83, 109) only read the cell and are left out.

\* let mut current_value = atom_box.load()
cas_test_load(t) ==
    /\ pc[t] = "t_start"
    /\ box' = [box EXCEPT ![t] = 1]
    /\ Call(t, "acquire", "t_loop")
    /\ UNCHANGED <<cellVars, heapVars, hazVars, retVars, domVars, progVars,
                   lg, sg, cur, lo, it, hd, rc, cx>>

\* (*current_value).0 of let new_value = Value((*current_value).0 + 1)
cas_test_deref(t) ==
    /\ pc[t] = "t_loop"
    /\ \E v \in Values : deref(t, lg[t], v)
    /\ Goto(t, "t_cas")
    /\ UNCHANGED <<cellVars, heapVars, hazVars, retVars, domVars, iter, bound,
                   box, lg, sg, cur, lo, it, hd, rc, cx>>

\* a compare_exchange_weak of the test may fail spuriously while fewer than
\* MaxSpurious threads have seen it do so
SpuriousLeft(t) ==
    /\ iter[t] = 0
    /\ Cardinality({u \in AllThreads : iter[u] > 0}) < MaxSpurious

\* match atom_box.compare_exchange(current_value, new_value): Ok breaks the
\* loop, Err(value) makes value the current_value of the next round
cas_test_compare_exchange(t) ==
    /\ pc[t] = "t_cas"
    /\ \E spurious \in BOOLEAN :
        /\ spurious => bound.weak /\ SpuriousLeft(t)
        /\ compare_exchange(t, 1, seen[t] + 1, bound.weak, spurious)
        /\ iter' = [iter EXCEPT ![t] = IF spurious THEN 1 ELSE @]
    /\ pc' = [pc EXCEPT ![t] = "dl_reset"]
    /\ ret' = [ret EXCEPT ![t] =
                 <<IF cx'[t].res = "ok" THEN "t_break" ELSE "t_loop">>]
    /\ UNCHANGED <<boxdom, boxalive, drops, hazVars, retVars, domVars,
                   seen, uaf, bound, box, lo, it, hd, rc>>

\* let _ = loop { ... break value }: the StoreGuard is dropped at once
cas_test_break(t) ==
    /\ pc[t] = "t_break"
    /\ StartRetire(t, sg[t])
    /\ sg' = [sg EXCEPT ![t] = NoGuard]
    /\ Call(t, "retire", "done")
    /\ UNCHANGED <<cellVars, heapVars, hazVars, retVars, domVars, progVars,
                   box, lg, cur, lo, it, hd, cx>>

\* ------------------------------------------- the eager reclamation test
\* Thread 1 follows drop_test (lib.rs:824-878): it loads, keeps the
\* LoadGuard until the value has been swapped out and retired, drops the
\* guard and then stores, which retires once more.  The other thread stores.

\* retire(p) has pushed p on the retire list of its Domain
Retired(p) ==
    /\ \A b \in Boxes : ptr[b] # p
    /\ \A u \in AllThreads : sg[u].ptr # p
    /\ \A u \in AllThreads :
          ~(pc[u] \in {"retire", "rt_cas"} /\ rc[u].value = p)

\* let value = atom_box.load() (lib.rs:833)
eager_load(t) ==
    /\ pc[t] = "e_start"
    /\ box' = [box EXCEPT ![t] = 1]
    /\ Call(t, "acquire", "e_hold")
    /\ UNCHANGED <<cellVars, heapVars, hazVars, retVars, domVars, progVars,
                   lg, sg, cur, lo, it, hd, rc, cx>>

\* drop(value) (lib.rs:866), once the value was retired; seen[t] keeps the
\* pointer of the guard
eager_drop_guard(t) ==
    /\ pc[t] = "e_hold"
    /\ Retired(lg[t].ptr)
    /\ seen' = [seen EXCEPT ![t] = lg[t].ptr]
    /\ cur' = [cur EXCEPT ![t] = lg[t]]
    /\ lg' = [lg EXCEPT ![t] = NoGuard]
    /\ Call(t, "dl_reset", "e_store")
    /\ UNCHANGED <<cellVars, heapVars, hazVars, retVars, domVars, uaf, iter,
                   bound, box, sg, lo, it, hd, rc, cx>>

\* let _ = atom_box.swap(..) (lib.rs:867-870): a retire that starts after
\* the guard was dropped
eager_store(t) ==
    /\ pc[t] = "e_store"
    /\ CanAlloc
    /\ Alloc(NewAddr)
    /\ ptr' = [ptr EXCEPT ![1] = NewAddr]
    /\ StartRetire(t, StoreGuard(ptr[1], boxdom[1]))
    /\ Call(t, "retire", "done")
    /\ UNCHANGED <<boxdom, boxalive, drops, hazVars, retVars, domVars,
                   progVars, box, lg, sg, cur, lo, it, hd, cx>>

\* ------------------------------------- the hazard list of "bicephany"
\* With the feature "bicephany" HazardPointers is Bicephaly<AtomicPtr<usize>>
\* (mod.rs:29-30, 58-61): released nodes are kept on a second list, from
\* which acquire_haz_ptr pops.  available_count and in_use_count are
\* written (bicephaly.rs:63, 123) and never read: they are left out.
otherVars == <<cellVars, heapVars, hazVars, retVars, strategy, alive, now,
               progVars, ret, box, lg, sg, cur, lo, it, hd, rc, cx>>

BiLocal(t) == bicephaly.local[t]
BiHeld == UNION {bicephaly.held[t] : t \in AllThreads}

\* Domain::acquire_haz_ptr -> get_available -> pop_available_node: the first
\* available_head.load(Acquire) (mod.rs:157-158, bicephaly.rs:90-92, 105)
bi_acquire_haz_ptr(t) ==
    /\ pc[t] = "idle"
    /\ Cardinality(bicephaly.held[t]) < MaxHeld
    /\ bicephaly.available_count > -MaxCountDrift
    /\ bicephaly' = [bicephaly EXCEPT
                       !.local[t].head_ptr = bicephaly.available_head]
    /\ pc' = [pc EXCEPT ![t] = "bi_pop"]
    /\ UNCHANGED otherVars

\* while !head_ptr.is_null() { new_head_ptr = head.next_available.load(..)
\* (bicephaly.rs:106-113); None leads to acquire_new_haz_ptr (mod.rs:160)
bi_pop_next(t) ==
    /\ pc[t] = "bi_pop"
    /\ IF BiLocal(t).head_ptr = NULL
       THEN /\ pc' = [pc EXCEPT ![t] = "bi_new"]
            /\ UNCHANGED bicephaly
       ELSE /\ bicephaly' = [bicephaly EXCEPT !.local[t].new_head_ptr =
                               bicephaly.next_available[BiLocal(t).head_ptr]]
            /\ pc' = [pc EXCEPT ![t] = "bi_pop_cas"]
    /\ UNCHANGED otherVars

\* a pop that hands out the head and leaves it on the available stack
bi_pop_keep_head(t) ==
    /\ pc[t] = "bi_pop_cas"
    /\ bicephaly' = [bicephaly EXCEPT
           !.available_count = @ - 1,
           !.held[t] = @ \cup {BiLocal(t).head_ptr},
           !.local[t] = Bicephaly_new.local[t]]
    /\ pc' = [pc EXCEPT ![t] = "idle"]
    /\ UNCHANGED otherVars

\* available_head.compare_exchange_weak(head_ptr, new_head_ptr): Ok does
\* available_count.fetch_add(-1), which no code reads, and returns
\* Some(head), Err takes the updated head (bicephaly.rs:115-129)
bi_pop_cas(t) ==
    /\ pc[t] = "bi_pop_cas"
    /\ LET head_ptr == BiLocal(t).head_ptr IN
       IF bicephaly.available_head = head_ptr
       THEN /\ bicephaly' = [bicephaly EXCEPT
                   !.available_head = BiLocal(t).new_head_ptr,
                   !.available_count = @ - 1,
                   !.held[t] = @ \cup {head_ptr},
                   !.local[t] = Bicephaly_new.local[t]]
            /\ pc' = [pc EXCEPT ![t] = "idle"]
       ELSE /\ bicephaly' = [bicephaly EXCEPT
                   !.local[t].head_ptr = bicephaly.available_head]
            /\ pc' = [pc EXCEPT ![t] = "bi_pop"]
    /\ UNCHANGED otherVars

\* acquire_new_haz_ptr -> push_in_use: Box::into_raw(Box::new(Node::new(..)))
\* and the in_use_head.load of push_in_use_node (mod.rs:170-175,
\* bicephaly.rs:133-141, 52)
bi_push_in_use(t) ==
    /\ pc[t] = "bi_new"
    /\ bicephaly.nodes < MaxNodes
    /\ bicephaly' = [bicephaly EXCEPT
                       !.nodes = @ + 1,
                       !.local[t].node = bicephaly.nodes + 1,
                       !.local[t].head_ptr = bicephaly.in_use_head]
    /\ pc' = [pc EXCEPT ![t] = "bi_in_use_cas"]
    /\ UNCHANGED otherVars

\* the loop body of push_in_use_node (bicephaly.rs:53-71)
bi_push_in_use_cas(t) ==
    /\ pc[t] = "bi_in_use_cas"
    /\ LET node == BiLocal(t).node IN
       IF bicephaly.in_use_head = BiLocal(t).head_ptr
       THEN /\ bicephaly' = [bicephaly EXCEPT
                   !.next_in_use[node] = BiLocal(t).head_ptr,
                   !.in_use_head = node,
                   !.in_use_count = @ + 1,
                   !.held[t] = @ \cup {node},
                   !.local[t] = Bicephaly_new.local[t]]
            /\ pc' = [pc EXCEPT ![t] = "idle"]
       ELSE /\ bicephaly' = [bicephaly EXCEPT
                   !.next_in_use[node] = BiLocal(t).head_ptr,
                   !.local[t].head_ptr = bicephaly.in_use_head]
            /\ UNCHANGED pc
    /\ UNCHANGED otherVars

\* Domain::release_hazard_ptr(haz_ptr) -> set_node_available and the
\* available_head.load of push_available_node (mod.rs:165-168,
\* bicephaly.rs:94-101, 52)
bi_release_hazard_ptr(t) ==
    /\ pc[t] = "idle"
    /\ bicephaly.available_count < MaxNodes + MaxCountDrift
    /\ \E node \in bicephaly.held[t] :
        bicephaly' = [bicephaly EXCEPT
                        !.held[t] = @ \ {node},
                        !.local[t].node = node,
                        !.local[t].head_ptr = bicephaly.available_head]
    /\ pc' = [pc EXCEPT ![t] = "bi_avail_cas"]
    /\ UNCHANGED otherVars

\* the loop body of push_available_node (bicephaly.rs:53-71)
bi_push_available_cas(t) ==
    /\ pc[t] = "bi_avail_cas"
    /\ LET node == BiLocal(t).node IN
       IF bicephaly.available_head = BiLocal(t).head_ptr
       THEN /\ bicephaly' = [bicephaly EXCEPT
                   !.next_available[node] = BiLocal(t).head_ptr,
                   !.available_head = node,
                   !.available_count = @ + 1,
                   !.local[t] = Bicephaly_new.local[t]]
            /\ pc' = [pc EXCEPT ![t] = "idle"]
       ELSE /\ bicephaly' = [bicephaly EXCEPT
                   !.next_available[node] = BiLocal(t).head_ptr,
                   !.local[t].head_ptr = bicephaly.available_head]
            /\ UNCHANGED pc
    /\ UNCHANGED otherVars

\* ---------------------------------------------- the swap_from_guard test
\* swap_from_gaurd_test (lib.rs:880-924): thread 1 exchanges the values of
\* the cells 1 and 2 through a placeholder; the other thread reads cell 2.

\* let guard1 = atom_box1.swap(placeholder) (lib.rs:897-900)
swap_test_swap(t) ==
    /\ pc[t] = "s_swap"
    /\ swap(t, 1, NewAddr)
    /\ pc' = [pc EXCEPT ![t] = "s_from_guard"]
    /\ UNCHANGED <<boxdom, boxalive, drops, hazVars, retVars, domVars,
                   progVars, ret, box, lg, cur, lo, it, hd, rc, cx>>

\* let guard2 = atom_box2.swap_from_guard(guard1) (lib.rs:901)
swap_test_from_guard(t) ==
    /\ pc[t] = "s_from_guard"
    /\ IF SameDomain(sg[t], 2)
       THEN /\ swap_from_guard(t, 2, sg[t])
            /\ pc' = [pc EXCEPT ![t] = "s_back"]
            /\ UNCHANGED <<ret, rc, cur, lg>>
       ELSE /\ PanicFromGuard(t, FALSE)
            /\ UNCHANGED ptr
    /\ UNCHANGED <<boxdom, boxalive, heapVars, hazVars, retVars, domVars,
                   progVars, box, lo, it, hd, cx>>

\* let _ = atom_box1.swap_from_guard(guard2) (lib.rs:902): the StoreGuard
\* it returns is dropped at once
swap_test_back(t) ==
    /\ pc[t] = "s_back"
    /\ IF SameDomain(sg[t], 1)
       THEN /\ ptr' = [ptr EXCEPT ![1] = sg[t].ptr]
            /\ StartRetire(t, StoreGuard(ptr[1], boxdom[1]))
            /\ sg' = [sg EXCEPT ![t] = NoGuard]
            /\ Call(t, "retire", "done")
            /\ UNCHANGED <<cur, lg>>
       ELSE /\ PanicFromGuard(t, FALSE)
            /\ UNCHANGED ptr
    /\ UNCHANGED <<boxdom, boxalive, heapVars, hazVars, retVars, domVars,
                   progVars, box, lo, it, hd, cx>>

\* atom_box2.load() by the other thread
swap_test_load(t) ==
    /\ pc[t] = "idle"
    /\ lg[t] = NoGuard
    /\ SlotsLeft(boxdom[2])
    /\ box' = [box EXCEPT ![t] = 2]
    /\ Call(t, "acquire", "idle")
    /\ UNCHANGED <<cellVars, heapVars, hazVars, retVars, domVars, progVars,
                   lg, sg, cur, lo, it, hd, rc, cx>>

\* ------------------------------------------- the swap_from_guard loop
\* the writer of concurrency_swap_with_static_ref and concurrency_swap_with_arc
\* (tests/concurrency_tests.rs:40-51, 201-212); iter[t] is i, seen[t] is
\* value1

\* let guard1 = atom_box1.swap(Value(i)) (tests/concurrency_tests.rs:42)
swap_loop_swap(t) ==
    /\ pc[t] = "w_swap"
    /\ iter[t] < ITERATIONS
    /\ swap(t, 1, iter[t] + 1)
    /\ iter' = [iter EXCEPT ![t] = @ + 1]
    /\ pc' = [pc EXCEPT ![t] = "w_value1"]
    /\ UNCHANGED <<boxdom, boxalive, drops, hazVars, retVars, domVars,
                   seen, uaf, bound, ret, box, lg, cur, lo, it, hd, rc, cx>>

\* let value1 = (*guard1).0 (tests/concurrency_tests.rs:43)
swap_loop_value1(t) ==
    /\ pc[t] = "w_value1"
    /\ \E v \in Values : deref(t, sg[t], v)
    /\ pc' = [pc EXCEPT ![t] = "w_from_guard"]
    /\ UNCHANGED <<cellVars, heapVars, hazVars, retVars, domVars, iter, bound,
                   ret, box, lg, sg, cur, lo, it, hd, rc, cx>>

\* let guard2 = atom_box2.swap_from_guard(guard1)
\* (tests/concurrency_tests.rs:44)
swap_loop_from_guard(t) ==
    /\ pc[t] = "w_from_guard"
    /\ IF SameDomain(sg[t], 2)
       THEN /\ swap_from_guard(t, 2, sg[t])
            /\ pc' = [pc EXCEPT ![t] = "w_assert"]
            /\ UNCHANGED <<ret, rc, cur, lg>>
       ELSE /\ PanicFromGuard(t, FALSE)
            /\ UNCHANGED ptr
    /\ UNCHANGED <<boxdom, boxalive, heapVars, hazVars, retVars, domVars,
                   progVars, box, lo, it, hd, cx>>

\* assert!((*guard2).0 <= value1) and the drop of guard2 at the end of the
\* loop body (tests/concurrency_tests.rs:45-49)
swap_loop_assert(t) ==
    /\ pc[t] = "w_assert"
    /\ \E v \in Values :
        /\ ~reads_dropped(sg[t]) => v = val[sg[t].ptr]
        /\ uaf' = [uaf EXCEPT ![t] = @ \/ reads_dropped(sg[t])]
        /\ StartRetire(t, sg[t])
        /\ sg' = [sg EXCEPT ![t] = NoGuard]
        /\ pc' = [pc EXCEPT ![t] = "retire"]
        /\ ret' = [ret EXCEPT ![t] =
                     <<IF v > seen[t] THEN "panicked"
                       ELSE IF iter[t] < ITERATIONS THEN "w_swap"
                       ELSE "done">>]
    /\ UNCHANGED <<cellVars, heapVars, hazVars, retVars, domVars, seen, iter,
                   bound, box, lg, cur, lo, it, hd, cx>>

\* ------------------------------------------------------- specifications
\* the steps inside load, the guards' drops, retire and bulk_reclaim
Step(t) ==
    \/ acquire_haz_ptr(t)
    \/ get_available_find(t)
    \/ get_available_try(t)
    \/ acquire_new_haz_ptr(t)
    \/ push_in_use_cas(t)
    \/ push_in_use_count(t)
    \/ load_read(t)
    \/ load_protect(t)
    \/ load_check(t)
    \/ load_reset(t)
    \/ loadguard_drop_reset(t)
    \/ loadguard_drop_release(t)
    \/ retire(t)
    \/ retire_push_cas(t)
    \/ retire_push_count(t)
    \/ retire_should_reclaim(t)
    \/ bulk_reclaim_swap(t)
    \/ bulk_reclaim_count(t)
    \/ get_guarded_ptrs_iter(t)
    \/ get_guarded_ptrs_next(t)
    \/ reclaim_unguarded_loop(t)
    \/ reclaim_push_all_cas(t)
    \/ reclaim_push_all_count(t)

\* two threads share one AtomBox: loads, stores and swaps, and in the end
\* the cell and its Domain are dropped
Next ==
    \E t \in Threads :
        \/ Step(t)
        \/ Load(t)
        \/ DerefLoadGuard(t)
        \/ DropLoadGuard(t)
        \/ Swap(t)
        \/ DropStoreGuard(t)
        \/ Store(t)
        \/ DropBox(t)
        \/ DropDomain(t)
        \/ domain_drop_assert(t)

Spec == Init /\ [][Next]_vars

\* two threads share one AtomBox: loads, stores and the compare_exchange
\* methods
NextCx ==
    \E t \in Threads :
        \/ Step(t)
        \/ Load(t)
        \/ DerefLoadGuard(t)
        \/ DropLoadGuard(t)
        \/ Store(t)
        \/ DropStoreGuard(t)
        \/ CompareExchange(t)
        \/ CompareExchangeFromGuard(t)

SpecCx == Init /\ [][NextCx]_vars

\* thread 1 swaps 1, 2, ... into the cell, both threads load and read
NextMono ==
    \E t \in Threads :
        \/ Step(t)
        \/ Load(t)
        \/ reader_deref(t)
        \/ DropLoadGuard(t)
        \/ writer_swap(t)
        \/ DropStoreGuard(t)

SpecMono == Init /\ [][NextMono]_vars

\* NCasThreads threads run the compare_exchange loop of the tests, all with
\* compare_exchange or all with compare_exchange_weak
InitCasTest ==
    /\ InitOneBox
    /\ \E weak \in BOOLEAN :
        bound = [addr |-> 1 + CasAllocs, slots |-> NCasThreads, weak |-> weak]
    /\ pc = [t \in AllThreads |-> IF t \in CasThreads THEN "t_start" ELSE "off"]

NextCasTest ==
    \E t \in CasThreads :
        \/ Step(t)
        \/ cas_test_load(t)
        \/ cas_test_deref(t)
        \/ cas_test_compare_exchange(t)
        \/ cas_test_break(t)

SpecCasTest == InitCasTest /\ [][NextCasTest]_vars

\* two AtomBoxes, each on a Domain of its own (mod.rs:9-15)
InitTwoDomains ==
    /\ InitCommon
    /\ ptr = [b \in Boxes |-> b]
    /\ nalloc = 2
    /\ boxdom = [b \in Boxes |-> b]
    /\ boxalive = [b \in Boxes |-> TRUE]
    /\ bound = [addr |-> 2 + TwoDomainAllocs, slots |-> MaxSlots, weak |-> FALSE]
    /\ pc = [t \in AllThreads |-> IF t \in Threads THEN "idle" ELSE "off"]

NextTwoDomains ==
    \E t \in Threads :
        \/ Step(t)
        \/ Load(t)
        \/ DropLoadGuard(t)
        \/ Swap(t)
        \/ DropStoreGuard(t)
        \/ SwapFromGuard(t)
        \/ StoreFromGuard(t)
        \/ CompareExchangeFromGuard(t)

SpecTwoDomains == InitTwoDomains /\ [][NextTwoDomains]_vars

\* two threads share one AtomBox: loads that note the pointer installed when
\* they start, swaps and the compare_exchange methods
NextVis ==
    \E t \in Threads :
        \/ Step(t)
        \/ LoadAfter(t)
        \/ DropLoadGuard(t)
        \/ Swap(t)
        \/ DropStoreGuard(t)
        \/ CompareExchange(t)

SpecVis == Init /\ [][NextVis]_vars

\* the steps of a run in which one thread loads, and loads once: its scan of
\* the hazard list finds no slot, so get_available_try has no part in it
StepOneLoader(t) ==
    \/ acquire_haz_ptr(t)
    \/ get_available_find(t)
    \/ acquire_new_haz_ptr(t)
    \/ push_in_use_cas(t)
    \/ push_in_use_count(t)
    \/ load_read(t)
    \/ load_protect(t)
    \/ load_check(t)
    \/ load_reset(t)
    \/ loadguard_drop_reset(t)
    \/ loadguard_drop_release(t)
    \/ retire(t)
    \/ retire_push_cas(t)
    \/ retire_push_count(t)
    \/ retire_should_reclaim(t)
    \/ bulk_reclaim_swap(t)
    \/ bulk_reclaim_count(t)
    \/ get_guarded_ptrs_iter(t)
    \/ get_guarded_ptrs_next(t)
    \/ reclaim_unguarded_loop(t)
    \/ reclaim_push_all_cas(t)
    \/ reclaim_push_all_count(t)

\* thread 1 runs the eager reclamation test while thread 2 stores
InitEager ==
    /\ InitOneBox
    /\ bound = [addr |-> 1 + MaxAllocs, slots |-> MaxSlots, weak |-> FALSE]
    /\ pc = [t \in AllThreads |->
               IF t = 1 THEN "e_start" ELSE IF t \in Threads THEN "idle" ELSE "off"]

NextEager ==
    \E t \in Threads :
        \/ StepOneLoader(t)
        \/ eager_load(t)
        \/ eager_drop_guard(t)
        \/ eager_store(t)
        \/ Store(t)

SpecEager == InitEager /\ [][NextEager]_vars

\* One AtomBox on a Domain made by Domain::new(ReclaimStrategy::Manual)
\* (mod.rs:137-144); the user may call Domain::reclaim at any time
InitManual ==
    /\ InitFields
    /\ InitCell
    /\ strategy = [d \in Domains |-> Manual]
    /\ bound = [addr |-> 1 + MaxAllocs, slots |-> MaxSlots, weak |-> FALSE]
    /\ pc = [t \in AllThreads |-> IF t \in Threads THEN "idle" ELSE "off"]

NextManual ==
    \E t \in Threads :
        \/ Step(t)
        \/ Load(t)
        \/ DropLoadGuard(t)
        \/ Swap(t)
        \/ DropStoreGuard(t)
        \/ Store(t)
        \/ CompareExchange(t)
        \/ Reclaim(t)

SpecManual == InitManual /\ [][NextManual]_vars

\* One AtomBox on a Domain made by Domain::new(ReclaimStrategy::TimedCapped(
\* TimedCappedSettings::new_with_timeout(SyncTimeout, RetiredThreshold,
\* DEFAULT_HAZARD_POINTER_MULTIPLIER))) (reclaim_strategy.rs:103-117)
InitTimed ==
    /\ InitFields
    /\ InitCell
    /\ strategy = [d \in Domains |->
                     TimedCapped(TimedCappedSettings(SyncTimeout,
                         RetiredThreshold, DEFAULT_HAZARD_POINTER_MULTIPLIER))]
    /\ bound = [addr |-> 1 + MaxAllocs, slots |-> MaxSlots, weak |-> FALSE]
    /\ pc = [t \in AllThreads |-> IF t \in Threads THEN "idle" ELSE "off"]

NextTimed ==
    \/ \E t \in Threads :
        \/ Step(t)
        \/ TimedStep(t)
        \/ Load(t)
        \/ DropLoadGuard(t)
        \/ Store(t)
    \/ Tick

SpecTimed == InitTimed /\ [][NextTimed]_vars

\* the general harness with guards that may be forgotten
NextForget ==
    \E t \in Threads :
        \/ Step(t)
        \/ Load(t)
        \/ DropLoadGuard(t)
        \/ ForgetLoadGuard(t)
        \/ Store(t)
        \/ DropBox(t)
        \/ DropDomain(t)
        \/ domain_drop_assert(t)

SpecForget == Init /\ [][NextForget]_vars

\* loads and guard drops that do not overlap in time, next to stores
NextSerial ==
    \E t \in Threads :
        \/ Step(t)
        \/ SerialLoad(t)
        \/ SerialDropLoadGuard(t)
        \/ Store(t)

SpecSerial == Init /\ [][NextSerial]_vars

\* threads that acquire and release hazard pointers of one Domain built with
\* the feature "bicephany"
NextBicephaly ==
    \E t \in Threads :
        \/ bi_acquire_haz_ptr(t)
        \/ bi_pop_next(t)
        \/ bi_pop_cas(t)
        \/ bi_push_in_use(t)
        \/ bi_push_in_use_cas(t)
        \/ bi_release_hazard_ptr(t)
        \/ bi_push_available_cas(t)

SpecBicephaly == Init /\ [][NextBicephaly]_vars

\* the steps of a run in which one thread loads, one guard at a time, and no
\* retired pointer is ever in a hazard slot: get_available finds no slot to
\* try and reclaim_unguarded keeps nothing
StepNoSurvivor(t) ==
    \/ acquire_haz_ptr(t)
    \/ get_available_find(t)
    \/ acquire_new_haz_ptr(t)
    \/ push_in_use_cas(t)
    \/ push_in_use_count(t)
    \/ load_read(t)
    \/ load_protect(t)
    \/ load_check(t)
    \/ load_reset(t)
    \/ loadguard_drop_reset(t)
    \/ loadguard_drop_release(t)
    \/ retire(t)
    \/ retire_push_cas(t)
    \/ retire_push_count(t)
    \/ retire_should_reclaim(t)
    \/ bulk_reclaim_swap(t)
    \/ bulk_reclaim_count(t)
    \/ get_guarded_ptrs_iter(t)
    \/ get_guarded_ptrs_next(t)
    \/ reclaim_unguarded_loop(t)

\* AtomBox::new_with_domain(value1, &TEST_DOMAIN) and (value2, &TEST_DOMAIN)
\* (lib.rs:892-893): the cells 1 and 2 hold the addresses 1 and 2; the
\* placeholder is the one value boxed later
InitSwapTest ==
    /\ InitCommon
    /\ ptr = [b \in Boxes |-> b]
    /\ nalloc = 2
    /\ boxdom = [b \in Boxes |-> 1]
    /\ boxalive = [b \in Boxes |-> TRUE]
    /\ bound = [addr |-> 3, slots |-> MaxSlots, weak |-> FALSE]
    /\ pc = [t \in AllThreads |->
               IF t = 1 THEN "s_swap" ELSE IF t \in Threads THEN "idle" ELSE "off"]

NextSwapTest ==
    \E t \in Threads :
        \/ StepNoSurvivor(t)
        \/ swap_test_swap(t)
        \/ swap_test_from_guard(t)
        \/ swap_test_back(t)
        \/ swap_test_load(t)
        \/ DropLoadGuard(t)

SpecSwapTest == InitSwapTest /\ [][NextSwapTest]_vars

\* AtomBox::new_with_domain(Value(0), test_domain) twice
\* (tests/concurrency_tests.rs:23-29): the cells 1 and 2 hold 0 at the
\* addresses 1 and 2; thread 1 is the writer, the other thread reads
InitSwapLoop ==
    /\ InitCommon
    /\ ptr = [b \in Boxes |-> b]
    /\ nalloc = 2
    /\ boxdom = [b \in Boxes |-> 1]
    /\ boxalive = [b \in Boxes |-> TRUE]
    /\ bound = [addr |-> 2 + ITERATIONS, slots |-> MaxSlots, weak |-> FALSE]
    /\ pc = [t \in AllThreads |->
               IF t = 1 THEN "w_swap" ELSE IF t \in Threads THEN "idle" ELSE "off"]

NextSwapLoop ==
    \E t \in Threads :
        \/ StepOneLoader(t)
        \/ swap_loop_swap(t)
        \/ swap_loop_value1(t)
        \/ swap_loop_from_guard(t)
        \/ swap_loop_assert(t)
        \/ Load(t)
        \/ reader_deref(t)
        \/ DropLoadGuard(t)

SpecSwapLoop == InitSwapLoop /\ [][NextSwapLoop]_vars

\* one AtomBox: store, store_from_guard and the swaps and guard drops they
\* are made of
NextStore ==
    \E t \in Threads :
        \/ Step(t)
        \/ Load(t)
        \/ DropLoadGuard(t)
        \/ Swap(t)
        \/ SwapFromGuard(t)
        \/ DropStoreGuard(t)
        \/ Store(t)
        \/ StoreFromGuard(t)

SpecStore == Init /\ [][NextStore]_vars

\* One AtomBox with loaders and writers under a scheduler that does not
\* leave a thread that is inside a method without a step forever.  The
\* writers store at most MaxAllocs values.
NextLive ==
    \E t \in Threads :
        \/ Step(t)
        \/ Load(t)
        \/ DropLoadGuard(t)
        \/ Store(t)

SpecLive ==
    /\ Init
    /\ [][NextLive]_vars
    /\ \A t \in Threads : WF_vars(Step(t))

\* No Domain and no cell exist; the threads construct Domains with
\* Domain::new(ReclaimStrategy::Eager), a cell on one of them, and use it.
\* The build is with or without cfg(nightly).
InitNew ==
    /\ InitLocals
    /\ alive = [d \in Domains |-> "none"]
    /\ strategy = [d \in Domains |-> Eager]
    /\ ptr = [b \in Boxes |-> NULL]
    /\ nalloc = 0
    /\ boxdom = [b \in Boxes |-> 1]
    /\ boxalive = [b \in Boxes |-> FALSE]
    /\ \E nightly \in BOOLEAN :
          bound = [addr |-> 1 + MaxAllocs, slots |-> MaxSlots, weak |-> FALSE,
                   nightly |-> nightly]
    /\ pc = [t \in AllThreads |-> IF t \in Threads THEN "idle" ELSE "off"]

NextNew ==
    \E t \in Threads :
        \/ Step(t)
        \/ \E d \in Domains : Domain_new(t, d, Eager)
        \/ \E d \in Domains : AtomBox_new_with_domain(t, 1, d)
        \/ Load(t)
        \/ DropLoadGuard(t)
        \/ Store(t)

SpecNew == InitNew /\ [][NextNew]_vars

\* One AtomBox on a Manual Domain, with room for SpliceAllocs values after
\* the first: both threads load and drop their guards, the last thread also
\* swaps and drops the StoreGuards, and the first calls Domain::reclaim, so
\* that a bulk_reclaim pushes a chain of survivors back while the other
\* thread retires
InitSplice ==
    /\ InitFields
    /\ InitCell
    /\ strategy = [d \in Domains |-> Manual]
    /\ bound = [addr |-> 1 + SpliceAllocs, slots |-> MaxSlots, weak |-> FALSE]
    /\ pc = [t \in AllThreads |-> IF t \in Threads THEN "idle" ELSE "off"]

NextSplice ==
    \/ \E t \in Threads :
        \/ Step(t)
        \/ Load(t)
        \/ DropLoadGuard(t)
    \/ Swap(NThreads)
    \/ DropStoreGuard(NThreads)
    \/ Reclaim(1)

SpecSplice == InitSplice /\ [][NextSplice]_vars

\* the same threads when no two calls on the Bicephaly overlap, as in the
\* tests of bicephaly.rs: a thread begins acquire_haz_ptr or
\* release_hazard_ptr only while every other thread is outside a call
NoCallBut(t) == \A u \in Threads \ {t} : pc[u] = "idle"

NextBicephalySeq ==
    \E t \in Threads :
        \/ NoCallBut(t) /\ bi_acquire_haz_ptr(t)
        \/ bi_pop_next(t)
        \/ bi_pop_cas(t)
        \/ bi_push_in_use(t)
        \/ bi_push_in_use_cas(t)
        \/ NoCallBut(t) /\ bi_release_hazard_ptr(t)
        \/ bi_push_available_cas(t)

SpecBicephalySeq == Init /\ [][NextBicephalySeq]_vars

\* ================================================================ claims

\* ---- C1
HeldLoadGuards(t) ==
    {g \in {lg[t]} \cup (IF pc[t] = "dl_reset" THEN {cur[t]} ELSE {}) :
        g.haz # 0}

\* C1: the value that a LoadGuard returned by load points to has not had its
\* destructor run as long as the guard has not been dropped, whatever
\* swaps, retires and bulk_reclaims other threads have done since.
C1_LoadGuardProtects ==
    \A t \in AllThreads : \A g \in HeldLoadGuards(t) : drops[g.ptr] = 0

\* a thread holds a LoadGuard from load on a value that was swapped out and
\* retired, and another thread's bulk_reclaim has gone over it and kept it
C1_Witness ==
    \E t, u \in Threads :
        /\ t # u
        /\ lg[t].haz # 0
        /\ lg[t].ptr # ptr[1]
        /\ pc[u] = "pa_count"
        /\ rc[u].still = lg[t].ptr

\* ---- C2
\* C2: every dereference of a LoadGuard reads a value that has not been
\* dropped, the LoadGuard of the Err arm of a compare_exchange included.
C2_DerefReadsLive == \A t \in AllThreads : ~uaf[t]

\* ---- C3
\* the retire nodes from a to tail (to the end of the chain for tail = NULL)
RECURSIVE Segment(_, _, _)
Segment(a, tail, n) ==
    IF a = NULL \/ n = 0 THEN {}
    ELSE IF a = tail THEN {a}
    ELSE {a} \cup Segment(rnext[a], tail, n - 1)

\* the retire nodes only thread t may touch: the node being retired until it
\* is pushed, the drained chain and the survivors until they are re-pushed
Owned(t) ==
    IF pc[t] \in {"retire", "rt_cas"} THEN {rc[t].value}
    ELSE IF pc[t] \in {"br_count", "gp_iter", "gp_next", "ru_loop", "pa_cas"}
    THEN Segment(rc[t].chain, NULL, AddrSpace)
             \cup Segment(rc[t].still, rc[t].tail, AddrSpace)
    ELSE {}

Shared == UNION {Segment(rhead[d], NULL, AddrSpace) : d \in Domains}

\* C3: each retired pointer has its destructor run at most once, and the
\* chain a bulk_reclaim has drained is reachable by no other thread and not
\* from the retire list until the survivors are pushed back.
C3_DrainExclusive ==
    /\ \A a \in Addr : drops[a] <= 1
    /\ \A t \in AllThreads : Owned(t) \cap Shared = {}
    /\ \A t, u \in AllThreads : t # u => Owned(t) \cap Owned(u) = {}

\* two threads are in reclaim_unguarded at once, each with a chain to go over
C3_Witness ==
    \E t, u \in Threads :
        /\ t # u
        /\ pc[t] = "ru_loop" /\ rc[t].chain # NULL
        /\ pc[u] = "ru_loop" /\ rc[u].chain # NULL

\* ---- C4
\* C4: once the cell and its Domain have been dropped, every value that was
\* installed in the cell has been dropped exactly once, the value installed
\* last included.
C4_DropConservation ==
    (~boxalive[1] /\ alive[1] = "dropped")
        => \A a \in 1..nalloc : drops[a] = 1

\* ---- C5
CasTestFinished == \A t \in CasThreads : pc[t] = "done"

\* C5: when every thread of the compare_exchange test has finished its
\* loop, the cell holds the number of threads, for compare_exchange and for
\* compare_exchange_weak.
C5_NoLostUpdate == CasTestFinished => val[ptr[1]] = NCasThreads

\* the test has finished after some compare_exchange failed and its thread
\* went round the loop with the LoadGuard of the Err arm
C5_Witness == CasTestFinished /\ nalloc > 1 + NCasThreads

\* ---- C6
\* the step of thread t is the compare-and-swap of a compare_exchange
CasStep(t) == cx[t] = NoCx /\ cx'[t] # NoCx

\* C6: a compare_exchange succeeds only if the cell's pointer equals the
\* pointer of current_value in the state of its compare-and-swap; then the
\* cell holds the new pointer after the step and the StoreGuard has the
\* pointer of current_value; a strong compare_exchange succeeds whenever the
\* two pointers are equal.
C6_CasLinearizable ==
    [][\A t \in AllThreads : CasStep(t) =>
        LET b == cx'[t].box
            new_ptr == IF cx'[t].from_guard THEN sg[t].ptr ELSE nalloc' IN
        /\ cx'[t].res = "ok" =>
              /\ ptr[b] = lg[t].ptr
              /\ ptr'[b] = new_ptr
              /\ sg'[t].ptr = lg[t].ptr
        /\ (~cx'[t].weak /\ ptr[b] = lg[t].ptr) => cx'[t].res = "ok"]_vars

\* a compare_exchange has succeeded, and one of a from_guard variant has
C6_Witness ==
    \E t \in Threads : cx[t].res = "ok" /\ cx[t].from_guard

\* ---- C7
\* C7: when a compare_exchange or compare_exchange_weak that failed returns,
\* the value it boxed has been dropped exactly once.
C7_FailedCasFreesNew ==
    [][\A t \in AllThreads :
        (cx[t].res = "err" /\ ~cx[t].from_guard /\ cx'[t] = NoCx)
            => drops'[cx[t].new] = 1]_vars

\* ---- C8
\* C8: a compare_exchange that fails leaves the pointer of every cell as it
\* was and returns a LoadGuard with the pointer its compare-and-swap found
\* in the cell; it goes on to return and does not panic.  This is so for
\* the spurious failures of the weak variants as well.
C8_FailedCasHarmless ==
    [][\A t \in AllThreads : (CasStep(t) /\ cx'[t].res = "err") =>
        /\ ptr' = ptr
        /\ lg'[t].ptr = ptr[cx'[t].box]
        /\ pc'[t] = "dl_reset"
        /\ ret'[t][Len(ret'[t])] # "panicked"]_vars

\* a compare_exchange has failed because the cell held another pointer
C8_Witness ==
    \E t \in Threads :
        /\ cx[t].res = "err"
        /\ cx[t].observed # cx[t].current
        /\ lg[t].ptr = cx[t].observed

\* ---- C9
\* the step of thread t is the panic of a from_guard method
PanicStep(t) ==
    /\ pc[t] = "idle"
    /\ ret'[t] # <<>>
    /\ ret'[t][Len(ret'[t])] = "panicked"

\* C9: a from_guard method given a StoreGuard of another Domain panics in a
\* step that changes the pointer of no cell, and no step puts the pointer of
\* a StoreGuard in a cell of another Domain.
C9_CrossDomainRejected ==
    [][\A t \in AllThreads : (pc[t] = "idle" /\ sg[t] # NoGuard) =>
        /\ \A b \in Boxes :
              (ptr'[b] # ptr[b] /\ ptr'[b] = sg[t].ptr) => sg[t].dom = boxdom[b]
        /\ PanicStep(t) => ptr' = ptr]_vars

\* a from_guard method has panicked
C9_Witness == \E t \in Threads : pc[t] = "panicked"

\* ---- C10
\* C10: while thread 1 swaps 1, 2, ... into the cell in this order, the
\* values a thread reads through the LoadGuards of its successive loads
\* never decrease.
C10_LoadMonotone ==
    [][\A t \in AllThreads : seen'[t] >= seen[t]]_vars

\* both threads have read the last value swapped in, the writer having
\* swapped twice
C10_Witness ==
    /\ iter[1] = MaxAllocs
    /\ \A t \in Threads : seen[t] = MaxAllocs

\* ---- C11
\* C11: the pointer a load returns is the pointer installed in the cell in
\* the state of its validating read, and it is the pointer that was
\* installed when the load started or one installed later (a cell's
\* pointers are numbered in the order in which they are installed, every
\* new value being boxed in the step that installs it).
C11_LoadSeesLatest ==
    [][\A t \in AllThreads : (pc[t] = "ld_check" /\ lg'[t] # lg[t]) =>
        /\ lg'[t].ptr = ptr[box[t]]
        /\ lg'[t].ptr >= seen[t]]_vars

\* a load that started when the second pointer was installed has returned
\* the third
C11_Witness ==
    \E t \in Threads : lg[t].haz # 0 /\ seen[t] = 2 /\ lg[t].ptr = 3

\* ---- C12
\* C12: under Eager, once the last LoadGuard on a retired value has been
\* dropped and a retire that started afterwards has returned, the value has
\* been dropped.  Thread 1 holds the only LoadGuard; seen[1] is its pointer.
\* The state looked at is the one in which that retire has returned and no
\* other call is in progress.
C12_EagerReclaims ==
    (pc[1] = "done" /\ pc[2] = "idle") => drops[seen[1]] = 1

\* ---- C13
\* the steps of bulk_reclaim
BulkReclaimPcs ==
    {"br_swap", "br_count", "gp_iter", "gp_next", "ru_loop", "pa_cas",
     "pa_count"}

\* C13: under Manual no retire (rc.value is the retired pointer) ever enters
\* bulk_reclaim, and a value is dropped only by a step of reclaim_unguarded
\* inside a call to Domain::reclaim (which has no value to retire).
C13_ManualOnlyEnqueues ==
    [][/\ \A t \in AllThreads :
            pc'[t] \in BulkReclaimPcs => rc'[t].value = NULL
       /\ \A a \in Addr : drops'[a] # drops[a] =>
            \E t \in AllThreads :
                /\ pc[t] = "ru_loop"
                /\ rc[t].value = NULL
                /\ rc'[t].reclaimed = rc[t].reclaimed + 1]_vars

\* a retire has returned leaving its value on the retire list, and an
\* earlier retired value was dropped by Domain::reclaim
C13_Witness ==
    /\ \A t \in Threads : pc[t] = "idle"
    /\ rhead[1] # NULL
    /\ drops[rhead[1]] = 0
    /\ \E a \in Addr : drops[a] = 1

\* ---- C14
\* C14: under TimedCapped a retire whose count check found the retire list
\* count at least retired_threshold and at least (hazard slots of the Domain
\* times hazard_pointer_multiplier) runs bulk_reclaim, whatever the timer
\* says: it does not return from check_sync_time without reclaiming.  The
\* hazard list never shrinks, so a count that is enough for the slots of now
\* was enough at the check.
C14_CountBranch ==
    [][\A t \in AllThreads :
        LET d == rc[t].dom
            self == strategy[d].settings IN
        (/\ pc[t] \in {"cs_load", "cs_cas"}
         /\ pc'[t] = "idle"
         /\ rc[t].retired_count >= self.retired_threshold)
        => rc[t].retired_count < hcount[d] * self.hazard_pointer_multiplier]_vars

C16_DomainDropReclaimsAll == \A t \in AllThreads : pc[t] # "panicked"

\* ---- C17
\* C17: when loads and guard drops do not overlap, acquire_haz_ptr pushes a
\* new slot on the hazard list only when no slot of the Domain is released:
\* a released slot is reused.
C17_SlotReuse ==
    [][\A t \in AllThreads :
        (pc[t] = "new_haz" /\ pc'[t] = "new_cas") =>
            \A i \in 1..Len(slots[Dom(t)]) : slots[Dom(t)][i].active]_vars

\* ---- C18
\* C18: a hazard slot has at most one owner at a time; for the two-headed
\* free list: pop_available_node never returns a node whose HazardPointer
\* some thread still holds.
C18_BicephalyOneOwner ==
    [][\A t \in AllThreads :
        (pc[t] = "bi_pop_cas" /\ pc'[t] = "idle") =>
            bicephaly.local[t].head_ptr \notin BiHeld]_vars

\* C18 for the scanning list: the slots of the loads in progress and of the
\* LoadGuards held, all of Domain 1 here, are pairwise distinct.
HeldSlot(t) ==
    IF lg[t].haz # 0 THEN lg[t].haz
    ELSE IF pc[t] \in {"new_cas", "new_count", "ld_read", "ld_protect",
                       "ld_check", "ld_reset"}
         THEN lo[t].hp ELSE 0
C18_ScanOneOwner ==
    \A t, u \in AllThreads :
        (t # u /\ HeldSlot(t) # 0) => HeldSlot(t) # HeldSlot(u)

\* ---- C19
\* the places that hold pointer a: the cells it is installed in, the
\* StoreGuards over it, and the retire path a StoreGuard's drop sent it on
Holders(a) ==
    Cardinality({b \in Boxes : ptr[b] = a})
    + Cardinality({t \in AllThreads : sg[t].ptr = a})
    + (IF \/ a \in Shared
          \/ \E t \in AllThreads : a \in Owned(t)
          \/ drops[a] >= 1
       THEN 1 ELSE 0)

\* C19: a swap installs its new pointer and returns a StoreGuard over the
\* pointer installed immediately before; every pointer ever boxed is either
\* still installed or was returned by exactly one swap (and is held in that
\* StoreGuard or went to retire when it was dropped).
C19_SwapPermutation ==
    /\ [](\A a \in 1..nalloc : Holders(a) = 1)
    /\ [][\A t \in AllThreads :
            (sg[t] = NoGuard /\ sg'[t] # NoGuard) =>
                \E b \in Boxes :
                    /\ sg'[t].ptr = ptr[b]
                    /\ nalloc' = nalloc + 1
                    /\ ptr'[b] = nalloc']_vars

\* two StoreGuards from concurrent swaps on the cell are held at once
C19_Witness ==
    \E t, u \in Threads :
        /\ t # u
        /\ sg[t] # NoGuard /\ sg[u] # NoGuard
        /\ ptr[1] = 3

\* ---- C20
\* C20: swap_from_guard neither boxes nor drops nor retires a value; after
\* g1 = a.swap(P); g2 = b.swap_from_guard(g1); drop(a.swap_from_guard(g2))
\* cell a holds b's first value, cell b holds a's first value, neither was
\* dropped, and the placeholder P (address 3) was dropped exactly once.
C20_SwapFromGuard ==
    /\ [](pc[1] = "done" =>
            /\ ptr[1] = 2 /\ ptr[2] = 1
            /\ drops[1] = 0 /\ drops[2] = 0
            /\ drops[3] = 1
            /\ nalloc = 3)
    /\ [][(pc[1] = "s_from_guard" /\ pc'[1] = "s_back") =>
            /\ nalloc' = nalloc /\ drops' = drops
            /\ rc' = rc /\ retVars' = retVars
            /\ ptr'[2] = sg[1].ptr
            /\ sg'[1].ptr = ptr[2]]_vars

\* the test has finished while the other thread holds a LoadGuard on the
\* value that went from cell 1 to cell 2
C20_Witness ==
    /\ pc[1] = "done"
    /\ lg[2].haz # 0
    /\ lg[2].ptr = 1

\* ---- C21
\* C21: a compare_exchange_from_guard or compare_exchange_weak_from_guard
\* that fails hands back the StoreGuard it was given: the cell, the retire
\* list and the drop counts are as before and nothing is being retired; one
\* that succeeds installs the guard's pointer, returns the displaced one and
\* retires nothing.
C21_FromGuardFrame ==
    [][\A t \in AllThreads :
        (pc[t] = "idle" /\ pc'[t] = "dl_reset" /\ sg[t] # NoGuard) =>
            /\ lg'[t] # NoGuard =>
                  /\ sg'[t] = sg[t]
                  /\ ptr' = ptr
            /\ (lg'[t] = NoGuard /\ sg'[t] # sg[t]) =>
                  \E b \in Boxes :
                      /\ ptr'[b] = sg[t].ptr
                      /\ sg'[t].ptr = ptr[b]
                      /\ ptr[b] = lg[t].ptr
            /\ drops' = drops /\ nalloc' = nalloc
            /\ retVars' = retVars /\ rc' = rc]_vars

\* a compare_exchange_from_guard has just failed and its thread holds the
\* StoreGuard it passed in, while another one has succeeded
C21_Witness ==
    \E t, u \in Threads :
        /\ pc[t] = "dl_reset"
        /\ cx[t].res = "err" /\ cx[t].from_guard
        /\ sg[t].ptr = cx[t].new
        /\ cx[u].res = "ok" /\ cx[u].from_guard

\* ---- C22
\* C22: in the loop g1 = box1.swap(i); g2 = box2.swap_from_guard(g1) of a
\* single writer, the value under g2 is live and at most the value read
\* under g1, so the assertion of the loop never fails, whatever the reader
\* does.
C22_SwapLoopOrdered ==
    /\ pc[1] # "panicked"
    /\ ~uaf[1]
    /\ pc[1] = "w_assert" =>
          /\ drops[sg[1].ptr] = 0
          /\ val[sg[1].ptr] <= seen[1]

\* the writer is at the assertion of its last iteration, value1 being 1,
\* while the reader holds a LoadGuard
C22_Witness ==
    /\ pc[1] = "w_assert"
    /\ iter[1] = ITERATIONS
    /\ seen[1] = 1
    /\ \E t \in Threads : lg[t].haz # 0

\* ---- C23
\* the drop of a StoreGuard guard by thread t: retire(guard.ptr) on the
\* guard's Domain begins
DropsGuard(t, guard) ==
    /\ rc' = [rc EXCEPT ![t] = [NoReclaim EXCEPT !.value = guard.ptr,
                                                 !.dom = guard.dom]]
    /\ pc' = [pc EXCEPT ![t] = "retire"]
    /\ ret' = [ret EXCEPT ![t] = <<"idle">> \o @]
\* a freshly boxed value is exchanged with the pointer of cell b
InstallsNew(b) ==
    /\ nalloc' = nalloc + 1
    /\ ptr' = [ptr EXCEPT ![b] = nalloc + 1]
\* the pointer of guard is exchanged with the pointer of cell b
InstallsGuard(b, guard) ==
    /\ nalloc' = nalloc
    /\ ptr' = [ptr EXCEPT ![b] = guard.ptr]
IdleStep(t, target) == pc[t] = "idle" /\ pc'[t] = target
\* thread t returns a StoreGuard to its caller in this step
ReturnsGuard(t) == IdleStep(t, "idle") /\ sg'[t] # sg[t]

\* C23: store(v) does what swap(v) does and then what the drop of the
\* StoreGuard it returns does: v is installed and the pointer installed
\* before is retired to the cell's Domain; store_from_guard(g) does what
\* swap_from_guard(g) and the drop of its result do.  The steps of swap,
\* swap_from_guard and of the drop of a StoreGuard are the first three
\* cases, store and store_from_guard the next two; every step that changes
\* a cell is one of them.
C23_StoreIsSwapThenDrop ==
    [][/\ \A t \in AllThreads :
            /\ (ReturnsGuard(t) /\ nalloc' # nalloc) =>
                  \E b \in Boxes :
                      /\ InstallsNew(b)
                      /\ sg'[t] = StoreGuard(ptr[b], boxdom[b])
                      /\ rc' = rc /\ ret' = ret
            /\ (ReturnsGuard(t) /\ nalloc' = nalloc) =>
                  \E b \in Boxes :
                      /\ InstallsGuard(b, sg[t])
                      /\ sg'[t] = StoreGuard(ptr[b], boxdom[b])
                      /\ rc' = rc /\ ret' = ret
            /\ (IdleStep(t, "retire") /\ ptr' = ptr) =>
                  /\ DropsGuard(t, sg[t])
                  /\ sg'[t] = NoGuard
                  /\ nalloc' = nalloc
            /\ (IdleStep(t, "retire") /\ nalloc' # nalloc) =>
                  \E b \in Boxes :
                      /\ InstallsNew(b)
                      /\ DropsGuard(t, StoreGuard(ptr[b], boxdom[b]))
                      /\ sg' = sg
            /\ (IdleStep(t, "retire") /\ nalloc' = nalloc /\ ptr' # ptr) =>
                  \E b \in Boxes :
                      /\ InstallsGuard(b, sg[t])
                      /\ DropsGuard(t, StoreGuard(ptr[b], boxdom[b]))
                      /\ sg'[t] = NoGuard
            /\ (ReturnsGuard(t) \/ IdleStep(t, "retire")) =>
                  /\ drops' = drops
                  /\ retVars' = retVars /\ hazVars' = hazVars
                  /\ lg' = lg
       /\ (ptr' # ptr \/ nalloc' # nalloc) =>
              \E t \in AllThreads : ReturnsGuard(t) \/ IdleStep(t, "retire")]_vars

\* a store has displaced the value a swap installed and begun to retire
\* it, and a store_from_guard of the guard that swap returned has put the
\* first value back and begun to retire the stored one
C23_Witness ==
    \E t, u \in Threads :
        /\ t # u
        /\ pc[u] = "retire" /\ rc[u].value = 2
        /\ pc[t] = "retire" /\ rc[t].value = 3 /\ sg[t] = NoGuard
        /\ ptr[1] = 1

\* ---- C24
\* thread t returns from bulk_reclaim in this step; the value returned is
\* 0 at the test of retired_list and the local reclaimed after the loop
ReturnsFromReclaim(t) ==
    /\ pc[t] \in {"br_count", "ru_loop", "pa_count"}
    /\ pc'[t] = Head(ret[t])
    /\ ret'[t] = Tail(ret[t])
\* thread t takes this step
Acts(t) == pc'[t] # pc[t] \/ rc'[t] # rc[t] \/ hd'[t] # hd[t]
\* the entries of the drained chain that thread t has kept
Survivors(t) == Segment(rc[t].still, rc[t].tail, AddrSpace)

\* C24: the count a bulk_reclaim (and so Domain::reclaim) returns is the
\* number of values that call dropped: the call begins with a count of 0 and
\* an empty hazard set, returns at once (with 0) exactly when the chain it
\* drained is empty, and otherwise goes once over the drained chain with the
\* hazard set it sampled, where each entry outside the set is dropped and
\* counted and each entry inside is kept and not counted; nothing is dropped
\* or counted after the loop, and the count at the return is the result.
C24_ReclaimReturnsDropped ==
    [][\A t \in AllThreads :
        /\ (Acts(t) /\ pc[t] = "br_swap") =>
              /\ rc[t].reclaimed = 0 /\ rc[t].remaining = 0
              /\ rc[t].guarded = {}
              /\ rc'[t].chain = rhead[rc[t].dom]
        /\ (Acts(t) /\ pc[t] = "br_count") =>
              /\ ReturnsFromReclaim(t) <=> rc[t].chain = NULL
              /\ rc[t].reclaimed = 0
              /\ drops' = drops
        /\ (Acts(t) /\ pc[t] = "ru_loop" /\ rc[t].chain # NULL) =>
              LET a == rc[t].chain IN
              /\ rc'[t].guarded = rc[t].guarded
              /\ rc'[t].chain = rnext[a]
              /\ IF a \in rc[t].guarded
                 THEN /\ drops' = drops
                      /\ rc'[t].reclaimed = rc[t].reclaimed
                      /\ rc'[t].remaining = rc[t].remaining + 1
                      /\ Survivors(t)' = Survivors(t) \cup {a}
                 ELSE /\ drops' = [drops EXCEPT ![a] = @ + 1]
                      /\ rc'[t].reclaimed = rc[t].reclaimed + 1
                      /\ rc'[t].remaining = rc[t].remaining
                      /\ Survivors(t)' = Survivors(t)
        /\ (Acts(t) /\ pc[t] = "ru_loop" /\ rc[t].chain = NULL) =>
              /\ drops' = drops
              /\ ReturnsFromReclaim(t) <=> rc[t].remaining = 0
              /\ ~ReturnsFromReclaim(t) =>
                    rc'[t] = [rc[t] EXCEPT !.fence = "repush"]
        /\ (Acts(t) /\ pc[t] \in {"pa_cas", "pa_count"}) =>
              /\ drops' = drops
              /\ ReturnsFromReclaim(t) \/ rc'[t] = rc[t]]_vars

\* a Domain::reclaim that drained two entries is about to return 1: it
\* dropped the entry outside its hazard set and pushed the other one back
C24_Witness ==
    \E t \in Threads :
        /\ pc[t] = "pa_count"
        /\ rc[t].value = NULL
        /\ rc[t].reclaimed = 1 /\ rc[t].remaining = 1
        /\ \E a \in Addr : drops[a] = 1 /\ a \notin rc[t].guarded

\* ---- C25
\* the pcs of the protect-and-validate loop of load
LoadLoopPcs == {"ld_protect", "ld_check", "ld_reset"}

\* C25: load does not block.  The validating read sends the loop round
\* again only if it differs from the candidate, and the next candidate is
\* the pointer that read returned, so that with the cell unchanged the next
\* validation succeeds; a load returns its LoadGuard when the validating
\* read equals the candidate.  With writers that stop, every thread inside
\* load that keeps being scheduled returns from it.
C25_LoadTerminates ==
    /\ [][\A t \in AllThreads :
            /\ (pc[t] = "ld_check" /\ pc'[t] = "ld_reset") =>
                  /\ ptr[box[t]] # lo[t].orig
                  /\ lo'[t].orig = ptr[box[t]]
            /\ (pc[t] = "ld_check" /\ pc'[t] # "ld_check"
                    /\ ptr[box[t]] = lo[t].orig) =>
                  /\ pc'[t] = "idle"
                  /\ lg'[t].ptr = ptr[box[t]] /\ lg'[t].haz = lo[t].hp
            /\ (pc[t] \in {"ld_reset", "ld_protect"}
                    /\ pc'[t] \in LoadLoopPcs) =>
                  lo'[t].orig = lo[t].orig]_vars
    /\ \A t \in Threads : (pc[t] \in LoadPcs) ~> (pc[t] = "idle")

\* a load has found the cell changed by a store whose retire is still
\* running, and goes round again with the installed pointer as candidate
C25_Witness ==
    \E t \in Threads :
        /\ pc[t] = "ld_reset"
        /\ lo[t].orig = ptr[box[t]]
        /\ \E u \in Threads : u # t /\ pc[u] \in BulkReclaimPcs

\* ---- C26
\* the Domains that Domain::new has constructed
Constructed == {d \in Domains : alive[d] # "none"}

\* C26 as stated: Domain::new never constructs a Domain whose DOMAIN_ID is
\* the id of the shared Domain.
C26_NewRejectsSharedId ==
    \A d \in Constructed : DOMAIN_ID(d) # SHARED_DOMAIN_ID

\* C26: on a build with cfg(nightly), Domain::new never constructs a Domain
\* whose DOMAIN_ID is the id of the shared Domain: the call panics and
\* constructs nothing.  A panic of Domain::new happens only on such a build
\* and only for that id.
C26_NewRejectsSharedIdOnNightly ==
    /\ [](bound.nightly => C26_NewRejectsSharedId)
    /\ [][\A t \in AllThreads :
            (pc[t] = "idle" /\ pc'[t] = "panicked") =>
                /\ bound.nightly
                /\ \E d \in Domains :
                      /\ DOMAIN_ID(d) = SHARED_DOMAIN_ID
                      /\ alive[d] = "none"
                /\ alive' = alive /\ strategy' = strategy]_vars

\* on a nightly build a thread's Domain::new for DOMAIN_ID 0 has panicked,
\* while the Domain with the other id has been constructed and is in use
C26_Witness ==
    /\ bound.nightly
    /\ \E t \in Threads : pc[t] = "panicked"
    /\ \E d \in Constructed : boxalive[1] /\ boxdom[1] = d /\ rhead[d] # NULL

\* ---- C27
\* the part of the drained chain that thread t has not gone over yet
Undecided(t) == Segment(rc[t].chain, NULL, AddrSpace)
\* the retire list of Domain d
RetireList(d) == Segment(rhead[d], NULL, AddrSpace)

\* C27: a pass of bulk_reclaim over the chain it drained, with the hazard
\* set G it sampled, takes the entries one at a time and never one twice:
\* an entry outside G is dropped once and its node freed, an entry in G is
\* moved to the survivors and not dropped.  The survivors are entries in G,
\* not dropped, and as many as number_remaining; push_all puts exactly them
\* back in front of the retire list and adds number_remaining to the count.
C27_ReclaimPartition ==
    /\ [](\A t \in AllThreads :
            pc[t] \in {"ru_loop", "pa_cas"} =>
                /\ Survivors(t) \subseteq rc[t].guarded
                /\ Cardinality(Survivors(t)) = rc[t].remaining
                /\ Survivors(t) \cap Undecided(t) = {}
                /\ \A a \in Survivors(t) \cup Undecided(t) : drops[a] = 0)
    /\ [][\A t \in AllThreads :
            /\ (Acts(t) /\ pc[t] = "ru_loop" /\ rc[t].chain # NULL) =>
                  LET a == rc[t].chain IN
                  /\ Undecided(t)' = Undecided(t) \ {a}
                  /\ rc'[t].guarded = rc[t].guarded
                  /\ IF a \in rc[t].guarded
                     THEN /\ Survivors(t)' = Survivors(t) \cup {a}
                          /\ drops' = drops
                     ELSE /\ Survivors(t)' = Survivors(t)
                          /\ drops' = [drops EXCEPT ![a] = 1]
                          /\ rnext'[a] = NULL
                  /\ rhead' = rhead /\ rcount' = rcount
            /\ (Acts(t) /\ pc[t] = "pa_cas" /\ pc'[t] = "pa_count") =>
                  LET d == rc[t].dom IN
                  /\ RetireList(d)' = Survivors(t) \cup RetireList(d)
                  /\ Survivors(t) \cap RetireList(d) = {}
                  /\ drops' = drops /\ rcount' = rcount
            /\ (Acts(t) /\ pc[t] = "pa_count") =>
                  /\ rcount' = [rcount EXCEPT ![rc[t].dom] =
                                    @ + rc[t].remaining]
                  /\ rhead' = rhead /\ rnext' = rnext /\ drops' = drops]_vars

\* a retire's bulk_reclaim has dropped one entry of the chain it drained and
\* put the other, which is in its hazard set, back at the head of the retire
\* list; the count has not been added yet
C27_Witness ==
    \E t \in Threads :
        /\ pc[t] = "pa_count"
        /\ rc[t].value # NULL
        /\ rc[t].reclaimed = 1 /\ rc[t].remaining = 1
        /\ rhead[rc[t].dom] = rc[t].still
        /\ rc[t].still \in rc[t].guarded
        /\ drops[rc[t].still] = 0
        /\ \E a \in Addr : a \notin rc[t].guarded /\ drops[a] = 1

\* ---- C28
\* the chain thread t has drained and not pushed back: what it has not gone
\* over yet and the survivors
Drained(t) ==
    IF pc[t] \in {"br_count", "gp_iter", "gp_next", "ru_loop", "pa_cas"}
    THEN Undecided(t) \cup Survivors(t)
    ELSE {}
\* the values handed to retire whose push has succeeded: every boxed value
\* that is not installed, not owned by a StoreGuard and not on its way into
\* the retire list (the cells of this run are not dropped and every boxed
\* value is installed at once)
RetiredValues ==
    {a \in 1..nalloc :
        /\ \A b \in Boxes : ptr[b] # a
        /\ \A t \in AllThreads :
              /\ sg[t].ptr # a
              /\ ~(pc[t] \in {"retire", "rt_cas"} /\ rc[t].value = a)}
\* the number of places that hold retired value a
RetiredPlaces(a) ==
    Cardinality({d \in Domains : a \in RetireList(d)})
    + Cardinality({t \in AllThreads : a \in Drained(t)})

\* C28: a retired value that has not been dropped is in exactly one place:
\* the retire list, or the chain that one bulk_reclaim has drained and not
\* yet pushed back.  An entry leaves the retire list only when a
\* bulk_reclaim drains the whole list into its chain; a push (of a retired
\* value or of survivors) that succeeds puts its entries in front of those
\* in the list, and one that fails leaves the list as it is.
C28_NoRetiredLost ==
    /\ [](\A a \in RetiredValues : drops[a] = 0 => RetiredPlaces(a) = 1)
    /\ [][\A d \in Domains :
            /\ ~(RetireList(d) \subseteq RetireList(d)') =>
                  \E t \in AllThreads :
                      /\ pc[t] = "br_swap" /\ pc'[t] = "br_count"
                      /\ rc[t].dom = d
                      /\ Drained(t)' = RetireList(d)
                      /\ RetireList(d)' = {}
            /\ \A t \in AllThreads :
                  (Acts(t) /\ pc[t] \in {"rt_cas", "pa_cas"}
                           /\ rc[t].dom = d) =>
                      IF pc'[t] = pc[t]
                      THEN RetireList(d)' = RetireList(d)
                      ELSE RetireList(d)' = RetireList(d) \cup
                              (IF pc[t] = "rt_cas" THEN {rc[t].value}
                               ELSE Survivors(t))]_vars

\* a bulk_reclaim has pushed its survivor back in front of an entry that
\* another thread pushed while the reclaim was going over its chain
C28_Witness ==
    \E t \in Threads :
        /\ pc[t] = "pa_count"
        /\ rhead[rc[t].dom] = rc[t].still
        /\ rnext[rc[t].tail] # NULL
        /\ rnext[rc[t].tail] \in RetiredValues
        /\ drops[rnext[rc[t].tail]] = 0

\* ---- C29
\* the cells that exist and hold pointer a
InstalledIn(a) == {b \in Boxes : boxalive[b] /\ ptr[b] = a}
\* the StoreGuards that own pointer a
GuardsOf(a) == {t \in AllThreads : sg[t].ptr = a}
\* pointer a is with the Domain: handed to retire by the drop of its
\* StoreGuard, in the retire list or in a drained chain
InRetire(a) == a \in Shared \/ \E t \in AllThreads : a \in Owned(t)
\* the number of places pointer a is in
PlacesOf(a) ==
    Cardinality(InstalledIn(a)) + Cardinality(GuardsOf(a))
    + (IF InRetire(a) THEN 1 ELSE 0) + (IF drops[a] >= 1 THEN 1 ELSE 0)

\* C29: every value that was installed in a cell (in this run every boxed
\* value is) is in exactly one place: installed in one cell, owned by one
\* StoreGuard, with the Domain's retire list or a drained chain, or dropped.
C29_OnePlace == \A a \in 1..nalloc : PlacesOf(a) = 1

\* as long as no cell has been dropped, every value is in exactly one place
C29_OnePlaceWhileCellsLive ==
    (\A b \in Boxes : ptr[b] # NULL => boxalive[b]) => C29_OnePlace

\* ---- C30
\* the pcs of a push of retire and of bulk_reclaim
RetirePcs == {"retire", "rt_cas", "rt_count", "rt_should"}
\* no push and no bulk_reclaim is in progress on any Domain
NoPushOrReclaim ==
    \A t \in AllThreads : pc[t] \notin RetirePcs \cup BulkReclaimPcs

\* C30: whenever no push and no bulk_reclaim is in progress, the count of
\* the retire list is the number of its entries.
C30_CountMatchesList ==
    NoPushOrReclaim =>
        \A d \in Domains : rcount[d] = Cardinality(RetireList(d))

\* ---- C31
\* the hazard list node of a LoadGuard that has one
SlotOf(g) == slots[g.dom][g.haz]
\* the slot that the next step of thread u stores to, if it stores to one
\* (a try_acquire stores only to a slot whose active flag is false)
StoresTo(u) ==
    IF pc[u] \in {"ld_protect", "ld_reset", "new_cas"}
    THEN {<<Dom(u), lo[u].hp>>}
    ELSE IF pc[u] = "ga_try" /\ ~slots[Dom(u)][lo[u].hp].active
    THEN {<<Dom(u), lo[u].hp>>}
    ELSE IF pc[u] = "dl_release" \/ (pc[u] = "dl_reset" /\ cur[u].haz # 0)
    THEN {<<cur[u].dom, cur[u].haz>>}
    ELSE {}

\* C31: the hazard slot of a LoadGuard that load returned and that has not
\* been dropped is active and holds the guard's pointer; while the guard is
\* held no step changes the slot, and no other thread is about to store to
\* it.
C31_GuardSlotStable ==
    /\ [](\A t \in AllThreads : \A g \in HeldLoadGuards(t) :
            /\ SlotOf(g).active
            /\ SlotOf(g).ptr = g.ptr
            /\ \A u \in AllThreads \ {t} : <<g.dom, g.haz>> \notin StoresTo(u))
    /\ [][\A t \in AllThreads :
            (lg[t].haz # 0 /\ lg'[t] = lg[t]) => SlotOf(lg[t])' = SlotOf(lg[t])]_vars

\* a thread holds a LoadGuard on a retired value in a slot that another
\* thread's scan for an available slot is looking at, while the cell holds
\* a newer value
C31_Witness ==
    \E t, u \in Threads :
        /\ t # u
        /\ lg[t].haz # 0 /\ pc[t] = "idle"
        /\ ptr[1] # lg[t].ptr
        /\ pc[u] = "ga_try" /\ lo[u].hp = lg[t].haz

\* ---- C32
\* the state of a hazard list node
SlotState(node) ==
    IF ~node.active THEN "Free"
    ELSE IF node.ptr = NULL THEN "AcquiredClean" ELSE "Protecting"
\* the moves of a slot from one step to the next
SlotMoves ==
    {<<"Free", "AcquiredClean">>, <<"AcquiredClean", "Protecting">>,
     <<"Protecting", "AcquiredClean">>, <<"AcquiredClean", "Free">>}

ReturnsFromCx(t) ==
    /\ pc[t] \in DropLoadGuardPcs
    /\ cx[t].res # "none"
    /\ pc'[t] \notin DropLoadGuardPcs

\* C33: when a compare_exchange method returns, after a success and after a
\* failure, the hazard slot of the LoadGuard passed as current_value (if it
\* had one) has a null ptr and is not active; the caller then holds no
\* LoadGuard (success) or the LoadGuard of the Err arm, which has no hazard
\* slot and refers to the pointer the compare-and-swap found.  The drop of
\* a LoadGuard without a hazard slot changes no slot.
C33_CxConsumesGuard ==
    [][\A t \in AllThreads :
        /\ ReturnsFromCx(t) =>
              /\ cur[t].haz # 0 =>
                    /\ slots'[cur[t].dom][cur[t].haz].ptr = NULL
                    /\ ~slots'[cur[t].dom][cur[t].haz].active
              /\ lg'[t].haz = 0
              /\ cx[t].res = "ok" => lg'[t] = NoGuard
              /\ cx[t].res = "err" =>
                    lg'[t] = LoadGuard(cx[t].observed, boxdom[cx[t].box], 0)
        /\ (pc[t] = "dl_reset" /\ pc'[t] # "dl_reset" /\ cur[t].haz = 0) =>
              /\ slots' = slots
              /\ pc'[t] # "dl_release"]_vars

\* a thread's compare_exchange has failed and returned: it holds a
\* LoadGuard without a hazard slot on the value another thread's successful
\* compare_exchange installed, and a slot of the list is free again
C33_Witness ==
    \E t, u \in Threads :
        /\ t # u
        /\ pc[t] = "idle" /\ lg[t] # NoGuard /\ lg[t].haz = 0
        /\ lg[t].ptr = ptr[1]
        /\ sg[u] # NoGuard
        /\ \E i \in 1..Len(slots[1]) : SlotState(slots[1][i]) = "Free"

\* ---- C34
\* C34: get_guarded_ptrs goes over the hazard list node by node and adds
\* the ptr of each node that is not null, without looking at active; the
\* set changes in no other step of the pass, so it never holds null and
\* holds only pointers that a slot held when it was sampled.  An entry that
\* survives a pass is in that set.
C34_GuardedIsNonNullPtrs ==
    /\ [](\A t \in AllThreads :
            /\ NULL \notin rc[t].guarded
            /\ pc[t] \in {"br_swap", "br_count", "gp_iter"} =>
                  rc[t].guarded = {}
            /\ pc[t] \in {"ru_loop", "pa_cas"} =>
                  Survivors(t) \subseteq rc[t].guarded)
    /\ [][\A t \in AllThreads :
            /\ (pc[t] = "gp_iter" /\ pc'[t] = "gp_next") =>
                  it'[t] = hhead[rc[t].dom]
            /\ (pc[t] = "gp_next" /\ it'[t] # it[t]) =>
                  LET node == slots[rc[t].dom][it[t]] IN
                  /\ rc'[t].guarded =
                        rc[t].guarded \cup
                            (IF node.ptr = NULL THEN {} ELSE {node.ptr})
                  /\ it'[t] = node.next
            /\ rc'[t].guarded # rc[t].guarded =>
                  pc[t] = "gp_next" \/ rc'[t].guarded = {}]_vars

\* a sampling pass that has taken a protected pointer from one slot is at a
\* slot that is free, whose ptr is null
C34_Witness ==
    \E t \in Threads :
        /\ pc[t] = "gp_next" /\ it[t] # NULL
        /\ rc[t].guarded # {}
        /\ SlotState(slots[rc[t].dom][it[t]]) = "Free"
        /\ rhead[rc[t].dom] = NULL /\ rc[t].chain \in rc[t].guarded

\* ---- C35
\* C35: the push of retire happens with the fence of retire issued and
\* nothing pushed before it; bulk_reclaim has issued its fence after the
\* drain swap when it stores the count, samples the hazard slots and goes
\* over the chain; the survivors are pushed after a further fence, issued
\* after the loop and before the push; the validating read of load happens
\* with the candidate in the slot and the fence issued after that protect.
C35_FenceOrder ==
    /\ [](\A t \in AllThreads :
            /\ pc[t] \in {"rt_cas", "rt_count"} => rc[t].fence = "retire"
            /\ pc[t] \in {"br_count", "gp_iter", "gp_next", "ru_loop"} =>
                  rc[t].fence = "drain"
            /\ pc[t] \in {"pa_cas", "pa_count"} => rc[t].fence = "repush"
            /\ pc[t] = "ld_protect" => ~lo[t].fence
            /\ pc[t] = "ld_check" =>
                  /\ lo[t].fence
                  /\ slots[Dom(t)][lo[t].hp].ptr = lo[t].orig)
    /\ [][\A t \in AllThreads :
            /\ rc'[t].fence # rc[t].fence =>
                  \/ rc'[t].fence = "none"
                  \/ /\ pc[t] = "retire" /\ rc'[t].fence = "retire"
                     /\ rhead' = rhead
                  \/ /\ pc[t] = "br_swap" /\ rc'[t].fence = "drain"
                     /\ rhead'[rc[t].dom] = NULL
                     /\ rc'[t].chain = rhead[rc[t].dom]
                     /\ rc'[t].guarded = {}
                  \/ /\ pc[t] = "ru_loop" /\ rc[t].chain = NULL
                     /\ rc'[t].fence = "repush"
                     /\ rhead' = rhead
            /\ lo'[t].fence # lo[t].fence =>
                  \/ /\ pc[t] = "ld_protect" /\ lo'[t].fence
                     /\ slots'[Dom(t)][lo[t].hp].ptr = lo[t].orig
                     /\ pc'[t] = "ld_check"
                  \/ ~lo'[t].fence /\ pc'[t] # "ld_check"]_vars

\* a load is at its validating read while the other thread, which retired
\* the value and drained the list, is about to push a survivor back
C35_Witness ==
    \E t, u \in Threads :
        /\ t # u
        /\ pc[t] = "ld_check" /\ lo[t].fence
        /\ pc[u] = "pa_cas" /\ rc[u].fence = "repush" /\ rc[u].value # NULL

\* ---------------------------------------------------------------- C36
\* the slots reached from slot a by following next, at most n of them
\* (ListIterator::next, list.rs:30-42)
RECURSIVE SlotsFrom(_, _, _)
SlotsFrom(sl, a, n) ==
    IF a = NULL \/ n = 0 \/ a > Len(sl) THEN {}
    ELSE {a} \cup SlotsFrom(sl, sl[a].next, n - 1)

\* the slots of Domain d whose push has succeeded: every slot made, but the
\* one a thread is still trying to link
PushedSlots(d) ==
    (1..Len(slots[d]))
        \ {lo[t].hp : t \in {u \in Threads : pc[u] = "new_cas" /\ Dom(u) = d}}

\* C36: hazard slots are never unlinked or freed before the Domain is
\* destroyed: the slots reachable from the hazard-list head are exactly the
\* slots pushed so far, a pushed slot keeps its next pointer and stays
\* pushed, and the sampling of a bulk_reclaim starts with every slot pushed
\* before it read the head still to visit and then visits them one by one,
\* whether the slot is active or free
C36_SlotsStayLinked ==
    /\ [](\A d \in Domains :
            alive[d] # "dropped" =>
                SlotsFrom(slots[d], hhead[d], MaxSlots) = PushedSlots(d))
    /\ [][\A d \in Domains :
            alive'[d] # "dropped" =>
                /\ PushedSlots(d) \subseteq PushedSlots(d)'
                /\ \A i \in PushedSlots(d) :
                       slots'[d][i].next = slots[d][i].next
                /\ \A t \in Threads :
                       rc[t].dom = d =>
                       /\ (pc[t] = "gp_iter" /\ pc'[t] = "gp_next") =>
                              SlotsFrom(slots'[d], it'[t], MaxSlots)
                                  = PushedSlots(d)
                       /\ (pc[t] = "gp_next" /\ it[t] # NULL) =>
                              IF it'[t] # it[t]
                              THEN /\ SlotsFrom(slots'[d], it'[t], MaxSlots)
                                        = SlotsFrom(slots[d], it[t], MaxSlots)
                                              \ {it[t]}
                                   /\ rc'[t].guarded = rc[t].guarded
                                        \cup ({slots[d][it[t]].ptr} \ {NULL})
                              ELSE SlotsFrom(slots'[d], it[t], MaxSlots)
                                     = SlotsFrom(slots[d], it[t], MaxSlots)
         ]_vars

\* a sampling pass that stands on a free slot while another slot, pushed
\* before the pass read the head, is still to visit
C36_Witness ==
    \E t \in Threads :
        /\ pc[t] = "gp_next"
        /\ it[t] # NULL
        /\ alive[rc[t].dom] = "live"
        /\ ~slots[rc[t].dom][it[t]].active
        /\ Cardinality(SlotsFrom(slots[rc[t].dom], it[t], MaxSlots)) = 2

\* the nodes reached from node a by following next_in_use, at most n of
\* them (BicephalyIterator::next, bicephaly.rs:182-196)
RECURSIVE InUseFrom(_, _)
InUseFrom(a, n) ==
    IF a = NULL \/ n = 0 THEN {}
    ELSE {a} \cup InUseFrom(bicephaly.next_in_use[a], n - 1)

\* the same for the free-list variant: the all-slots chain holds every node
\* whose push_in_use has succeeded, held or on the available stack, and a
\* node in the chain keeps its next_in_use
C36_AllSlotsChain ==
    /\ [](InUseFrom(bicephaly.in_use_head, MaxNodes)
            = (1..bicephaly.nodes)
                \ {bicephaly.local[t].node :
                     t \in {u \in Threads : pc[u] = "bi_in_use_cas"}})
    /\ [][\A n \in InUseFrom(bicephaly.in_use_head, MaxNodes) :
             bicephaly'.next_in_use[n] = bicephaly.next_in_use[n]]_vars

\* ---------------------------------------------------------------- C37
\* what list.iter() yields: the slots from slot a on, in the order of the
\* next pointers, at most n of them (list.rs:27-42, 103-109)
RECURSIVE SlotSeq(_, _, _)
SlotSeq(sl, a, n) ==
    IF a = NULL \/ n = 0 \/ a > Len(sl) THEN <<>>
    ELSE <<a>> \o SlotSeq(sl, sl[a].next, n - 1)

\* the threads between the compare_exchange and the fetch_add of a push on
\* the hazard list of Domain d
CountingPushers(d) == {t \in Threads : pc[t] = "new_count" /\ Dom(t) = d}

\* the threads inside a push on the hazard list of Domain d
Pushers(d) ==
    {t \in Threads : pc[t] \in {"new_cas", "new_count"} /\ Dom(t) = d}

\* C37: LockFreeList::push links the new node at the head, so that
\* iteration yields the nodes most recent first, and then adds one to the
\* count; pushes that run concurrently lose no node: the list holds every
\* node whose compare_exchange succeeded exactly once, the count is behind
\* by the pushes that have not yet added theirs, and when no push is under
\* way the count is the number of nodes reachable from the head
C37_PushLinksAtHead ==
    /\ [](\A d \in Domains :
            alive[d] # "dropped" =>
            LET seq == SlotSeq(slots[d], hhead[d], MaxSlots) IN
            /\ Cardinality({seq[k] : k \in 1..Len(seq)}) = Len(seq)
            /\ hcount[d] + Cardinality(CountingPushers(d)) = Len(seq)
            /\ Pushers(d) = {} =>
                   /\ Len(seq) = Len(slots[d])
                   /\ hcount[d] = Len(slots[d]))
    /\ [][\A d \in Domains :
            alive'[d] # "dropped" =>
            /\ \A t \in Threads :
                 /\ (pc[t] = "new_cas" /\ pc'[t] = "new_count" /\ Dom(t) = d)
                        => /\ hhead'[d] = lo[t].hp
                           /\ slots'[d][lo[t].hp].next = hhead[d]
                           /\ SlotSeq(slots'[d], hhead'[d], MaxSlots)
                                = <<lo[t].hp>>
                                    \o SlotSeq(slots[d], hhead[d], MaxSlots)
                           /\ hcount'[d] = hcount[d]
                 /\ (pc[t] = "new_count" /\ pc'[t] # "new_count"
                        /\ Dom(t) = d)
                        => /\ hcount'[d] = hcount[d] + 1
                           /\ hhead'[d] = hhead[d]
                 /\ (pc[t] = "rt_cas" /\ pc'[t] = "rt_count"
                        /\ rc[t].dom = d)
                        => /\ rhead'[d] = rc[t].value
                           /\ rnext'[rc[t].value] = rhead[d]
                           /\ rcount'[d] = rcount[d]
                 /\ (pc[t] = "rt_count" /\ pc'[t] # "rt_count"
                        /\ rc[t].dom = d)
                        => /\ rcount'[d] = rcount[d] + 1
                           /\ rhead'[d] = rhead[d]
            /\ (\A t \in Threads :
                    ~(pc[t] = "new_cas" /\ pc'[t] = "new_count")
                    /\ ~(pc[t] = "new_count" /\ pc'[t] # "new_count"))
                   => /\ hhead'[d] = hhead[d]
                      /\ hcount'[d] = hcount[d]
         ]_vars

\* two pushes on one list that ran concurrently: both have linked their
\* node and neither has added to the count yet
C37_Witness ==
    \E d \in Domains :
        /\ alive[d] = "live"
        /\ Cardinality(CountingPushers(d)) = 2
        /\ Len(SlotSeq(slots[d], hhead[d], MaxSlots)) = 2
        /\ hcount[d] = 0

\* ---------------------------------------------------------------- C38
\* the retire nodes from a to tail in the order of the next pointers, at
\* most n of them; with tail NULL, what iteration from a yields
RECURSIVE ChainSeq(_, _, _)
ChainSeq(a, tail, n) ==
    IF a = NULL \/ n = 0 THEN <<>>
    ELSE IF a = tail THEN <<a>>
    ELSE <<a>> \o ChainSeq(rnext[a], tail, n - 1)

\* the retire list of Domain d as iteration yields it
RetireSeq(d) == ChainSeq(rhead[d], NULL, AddrSpace)

\* the chain of survivors thread t hands to push_all
SurvivorSeq(t) == ChainSeq(rc[t].still, rc[t].tail, AddrSpace)

\* C38: push_all(head, tail_next, n) splices a prebuilt chain in front of
\* the list: after its compare_exchange the list is the chain in chain order
\* followed by what the list held before, and its fetch_add adds n to the
\* count.  A push that runs concurrently puts its node in front of the list
\* as it then is, so its node lands before or after the chain; nothing but
\* the draining swap of bulk_reclaim takes a node out, and the chain waiting
\* to be spliced is not changed by other threads.
C38_PushAllSplices ==
    [][\A d \in Domains :
        /\ \A t \in Threads :
             rc[t].dom = d =>
             /\ pc[t] = "pa_cas" =>
                    /\ Len(SurvivorSeq(t)) = rc[t].remaining
                    /\ IF pc'[t] = "pa_count"
                       THEN /\ RetireSeq(d)' = SurvivorSeq(t) \o RetireSeq(d)
                            /\ rcount'[d] = rcount[d]
                       ELSE /\ SurvivorSeq(t)' = SurvivorSeq(t)
                            /\ pc'[t] = "pa_cas"
             /\ (pc[t] = "pa_count" /\ pc'[t] # "pa_count") =>
                    /\ rcount'[d] = rcount[d] + rc[t].remaining
                    /\ RetireSeq(d)' = RetireSeq(d)
             /\ (pc[t] = "rt_cas" /\ pc'[t] = "rt_count") =>
                    RetireSeq(d)' = <<rc[t].value>> \o RetireSeq(d)
        /\ RetireSeq(d)' # RetireSeq(d) =>
              \E t \in Threads :
                  /\ rc[t].dom = d
                  /\ \/ pc[t] = "pa_cas" /\ pc'[t] = "pa_count"
                     \/ pc[t] = "rt_cas" /\ pc'[t] = "rt_count"
                     \/ pc[t] = "br_swap" /\ pc'[t] # "br_swap"
                          /\ RetireSeq(d)' = <<>>
      ]_vars

\* a chain of two survivors has been spliced in while another thread's push
\* ran: that thread has linked its node and not yet added to the count, and
\* the list holds the two survivors and the third node
C38_Witness ==
    \E t, u \in Threads :
        /\ pc[t] = "pa_count"
        /\ rc[t].remaining = 2
        /\ pc[u] = "rt_count"
        /\ rc[u].dom = rc[t].dom
        /\ Len(RetireSeq(rc[t].dom)) = 3

\* ---------------------------------------------------------------- C39
\* the available stack from node a on, in the order of next_available, at
\* most n nodes
RECURSIVE AvailFrom(_, _)
AvailFrom(a, n) ==
    IF a = NULL \/ n = 0 THEN <<>>
    ELSE <<a>> \o AvailFrom(bicephaly.next_available[a], n - 1)

AvailSeq == AvailFrom(bicephaly.available_head, MaxNodes + 1)

\* the slots that are free: made, held by no thread and not in the hands of
\* a push_in_use or set_node_available that has not finished
FreeNodes ==
    ((1..bicephaly.nodes) \ BiHeld)
        \ {bicephaly.local[t].node :
             t \in {u \in Threads : pc[u] \in {"bi_in_use_cas", "bi_avail_cas"}}}

\* C39: in the two-headed free-list variant, with calls that do not
\* overlap, the available stack holds exactly the free slots, each once,
\* newest release first, and available_count is its length; every slot on
\* it is still in the all-slots chain.  set_node_available puts the slot on
\* top and leaves the all-slots chain alone; get_available returns the top
\* slot, the most recently released, and takes it off, or returns None (and
\* a new slot is made) exactly when no slot is free.  Popping the only
\* released slot leaves the available head null and the count 0.
C39_AvailableStack ==
    /\ [](/\ Cardinality({AvailSeq[k] : k \in 1..Len(AvailSeq)})
               = Len(AvailSeq)
          /\ {AvailSeq[k] : k \in 1..Len(AvailSeq)} = FreeNodes
          /\ bicephaly.available_count = Len(AvailSeq)
          /\ FreeNodes \subseteq InUseFrom(bicephaly.in_use_head, MaxNodes))
    /\ [][\A t \in Threads :
            /\ (pc[t] = "bi_avail_cas" /\ pc'[t] = "idle") =>
                   /\ AvailSeq' = <<BiLocal(t).node>> \o AvailSeq
                   /\ bicephaly'.available_count
                        = bicephaly.available_count + 1
                   /\ bicephaly'.in_use_head = bicephaly.in_use_head
                   /\ bicephaly'.next_in_use = bicephaly.next_in_use
                   /\ bicephaly'.in_use_count = bicephaly.in_use_count
            /\ (pc[t] = "bi_pop_cas" /\ pc'[t] = "idle") =>
                   /\ AvailSeq # <<>>
                   /\ bicephaly'.held[t]
                        = bicephaly.held[t] \cup {Head(AvailSeq)}
                   /\ Head(AvailSeq) \notin bicephaly.held[t]
                   /\ AvailSeq' = Tail(AvailSeq)
                   /\ bicephaly'.available_count
                        = bicephaly.available_count - 1
                   /\ Len(AvailSeq) = 1 =>
                          /\ bicephaly'.available_head = NULL
                          /\ bicephaly'.available_count = 0
                          /\ bicephaly'.next_available[Head(AvailSeq)] = NULL
            /\ (pc[t] = "bi_pop" /\ pc'[t] # "bi_pop") =>
                   (pc'[t] = "bi_new" <=> FreeNodes = {})
            /\ (pc[t] = "bi_in_use_cas" /\ pc'[t] = "idle") =>
                   /\ bicephaly'.in_use_count = bicephaly.in_use_count + 1
                   /\ bicephaly'.in_use_head = BiLocal(t).node
                   /\ AvailSeq' = AvailSeq
         ]_vars

\* two slots were released and one get_available has run: the thread holds
\* the slot released last, whose next_available still names the slot
\* released before it, and that slot alone is on the available stack
C39_Witness ==
    \E t \in Threads : \E n \in bicephaly.held[t] :
        /\ pc[t] = "idle"
        /\ bicephaly.next_available[n] # NULL
        /\ AvailSeq = <<bicephaly.next_available[n]>>
        /\ bicephaly.available_count = 1

\* what remains of C39 when calls overlap: set_node_available makes the
\* slot the available head, in front of the head it replaced, and leaves the
\* all-slots chain alone; get_available returns the slot that is the
\* available head at its compare_exchange, and returns None only after
\* reading a null available head
C39_StepsWhenCallsOverlap ==
    [][\A t \in Threads :
         /\ (pc[t] = "bi_avail_cas" /\ pc'[t] = "idle") =>
                /\ bicephaly'.available_head = BiLocal(t).node
                /\ bicephaly'.next_available[BiLocal(t).node]
                     = bicephaly.available_head
                /\ bicephaly'.in_use_head = bicephaly.in_use_head
                /\ bicephaly'.next_in_use = bicephaly.next_in_use
         /\ (pc[t] = "bi_pop_cas" /\ pc'[t] = "idle") =>
                /\ bicephaly.available_head # NULL
                /\ bicephaly'.held[t]
                     = bicephaly.held[t] \cup {bicephaly.available_head}
         /\ (pc[t] = "bi_pop" /\ pc'[t] = "bi_new") =>
                BiLocal(t).head_ptr = NULL
      ]_vars

====
